---- MODULE Spec2Model ----
(***************************************************************************)
(* The document hierarchy of md-notething (src/src/document.rs):           *)
(* Document -> Element (Table) -> cells -> Paragraph, the command          *)
(* dispatch that every level implements (trait Commandee) and the          *)
(* ingestion of a parse-event stream (trait Markdown); and the line editor *)
(* of src/src/main.rs: TextLine, Model::update, Model::parse_md and        *)
(* Line::view.                                                             *)
(*                                                                         *)
(* usize values are modelled as integers standing for their residues       *)
(* modulo 2^w: a negative integer -k stands for 2^w - k (usize::MAX is -1).*)
(* An arithmetic overflow panics when the build has overflow checks        *)
(* (debug profile) and wraps when it has none (release profile); the       *)
(* variable overflow_checks fixes the build for a whole behaviour.         *)
(***************************************************************************)
EXTENDS Integers, Sequences, FiniteSets, TLC

VARIABLES
    elements,        \* Document.elements: sequence of Tables
    active_element,  \* Document.active_element (0-based, as in the source)
    overflow_checks, \* TRUE: overflow panics (debug); FALSE: it wraps (release)
    budget,          \* Insert/Delete commands the session may still submit
                     \* (Unlimited: as many as it likes)
    last,            \* the last command submitted and what each level returned
    lines,           \* Model.lines: sequence of TextLines
    cursor_position, \* Model.cursor_position: <<x, y>>
    mode,            \* Model.mode
    command,         \* Model.command: the TextLine of the command prompt
    md               \* the parse events an ingestion has not consumed yet

documentVars == <<elements, active_element>>
modelVars == <<lines, cursor_position, mode, command>>

vars ==
    <<elements, active_element, overflow_checks, budget, last,
      lines, cursor_position, mode, command, md>>

(***************************************************************************)
(* Bounds of the model.                                                    *)
(***************************************************************************)
MaxLen == 2        \* graphemes of a cell, initially and after an Insert
MaxEdits == 1      \* Insert/Delete commands in one session on a grid document

MaxColumn == MaxLen + 1   \* largest column carried by a CursorEnterV input
WrapDepth == MaxLen       \* how far below usize::MAX a wrapped cursor is followed
MaxCursor == MaxLen + 1   \* how far past the end of its text a cursor is followed
MaxColumnText == MaxLen + 2   \* graphemes of the two cells of a column table together
MaxMarked == MaxLen + 2   \* graphemes of a one-line document with markup
MaxSpans == MaxLen + 1    \* characters of a rendered line
MaxPrompt == MaxLen + 1   \* graphemes typed into the command buffer

(***************************************************************************)
(* Option<T>: None is the empty tuple, Some(x) the one-element tuple.      *)
(***************************************************************************)
None == <<>>
Some(x) == <<x>>
IsSome(o) == o # <<>>

Min(a, b) == IF a <= b THEN a ELSE b

(***************************************************************************)
(* Graphemes.  "a" is an ordinary letter, "hao" stands for a CJK            *)
(* ideograph (display width 2), "zw" for a zero-width grapheme and "flag"  *)
(* for an emoji sequence whose measured width exceeds 2.                   *)
(***************************************************************************)
LineBreak == "\n"
Graphemes == {"a", "hao", "zw"}
AllGraphemes == Graphemes \cup {"flag"}

width(g) ==
    CASE g = "a" -> 1
      [] g = "hao" -> 2
      [] g = "zw" -> 0
      [] g = "flag" -> 4
      [] OTHER -> 0

\* s.width().min(2)
CappedWidth(g) == Min(width(g), 2)

RECURSIVE SumWidths(_)
SumWidths(s) == IF s = <<>> THEN 0 ELSE CappedWidth(Head(s)) + SumWidths(Tail(s))

\* iter().take(n) for a usize n: a wrapped (huge) n takes everything
Take(s, n) == IF n < 0 \/ n >= Len(s) THEN s ELSE SubSeq(s, 1, n)

(***************************************************************************)
(* Commands (enum Command).  One record shape for every variant.           *)
(***************************************************************************)
Cmd(t, f, n, c, m) == [type |-> t, flag |-> f, n |-> n, chars |-> c, motion |-> m]
Up == Cmd("Up", FALSE, 0, <<>>, "")
Left == Cmd("Left", FALSE, 0, <<>>, "")
Down == Cmd("Down", FALSE, 0, <<>>, "")
Right == Cmd("Right", FALSE, 0, <<>>, "")
CursorEnterH(from_right) == Cmd("CursorEnterH", from_right, 0, <<>>, "")
CursorEnterV(column, from_bottom) == Cmd("CursorEnterV", from_bottom, column, <<>>, "")
CursorLeave == Cmd("CursorLeave", FALSE, 0, <<>>, "")
Insert(chars) == Cmd("Insert", FALSE, 0, chars, "")
Delete(motion) == Cmd("Delete", FALSE, 0, <<>>, motion)

Motions == {"Up", "Left", "Down", "Right"}
Directional == {"Up", "Left", "Down", "Right"}

\* Command::horizontal
horizontal(cmd) == cmd.type \in {"Left", "Right", "CursorEnterH"}

(***************************************************************************)
(* Outcomes of a command: the two boolean responses, and the ways a call   *)
(* aborts the session.                                                     *)
(***************************************************************************)
Aborts == {"panic", "todo"}
IsAbort(r) == r \in Aborts

(***************************************************************************)
(* Paragraph                                                               *)
(***************************************************************************)
Paragraph(text, cursor) == [text |-> text, cursor |-> cursor]

\* faulty variant of get_normalized_cursor: the raw index, widths ignored
get_normalized_cursor_RawIndex(p) == p.cursor

get_normalized_cursor(p) ==
    IF IsSome(p.cursor) THEN Some(SumWidths(Take(p.text, p.cursor[1]))) ELSE None

\* faulty variant of WalkColumn: a grapheme is stepped over only when the
\* remaining column exceeds its width
RECURSIVE WalkColumn_Strict(_, _, _)
WalkColumn_Strict(text, normalized_cursor, actual_cursor) ==
    IF /\ normalized_cursor > 0
       /\ actual_cursor < Len(text)
       /\ normalized_cursor > CappedWidth(text[actual_cursor + 1])
    THEN WalkColumn_Strict(text,
                           normalized_cursor - CappedWidth(text[actual_cursor + 1]),
                           actual_cursor + 1)
    ELSE actual_cursor

\* faulty variant of WalkColumn: once the column is used up the walk goes on
\* over the zero-width graphemes that follow
RECURSIVE WalkColumn_PastZeroWidth(_, _, _)
WalkColumn_PastZeroWidth(text, normalized_cursor, actual_cursor) ==
    IF /\ actual_cursor < Len(text)
       /\ normalized_cursor >= CappedWidth(text[actual_cursor + 1])
    THEN WalkColumn_PastZeroWidth(text,
                                  normalized_cursor - CappedWidth(text[actual_cursor + 1]),
                                  actual_cursor + 1)
    ELSE actual_cursor

RECURSIVE WalkColumn(_, _, _)
WalkColumn(text, normalized_cursor, actual_cursor) ==
    IF /\ normalized_cursor > 0
       /\ actual_cursor < Len(text)
       /\ normalized_cursor >= CappedWidth(text[actual_cursor + 1])
    THEN WalkColumn(text,
                    normalized_cursor - CappedWidth(text[actual_cursor + 1]),
                    actual_cursor + 1)
    ELSE actual_cursor

set_normalized_cursor(p, normalized_cursor) ==
    [p EXCEPT !.cursor = Some(WalkColumn(p.text, normalized_cursor, 0))]

PResult(p, r) == [p |-> p, ret |-> r]

\* faulty variant of ParagraphLeft: the cursor moves over two elements at once
ParagraphLeft_Twice(p) ==
    IF IsSome(p.cursor) /\ p.cursor[1] # 0
    THEN PResult([p EXCEPT !.cursor =
                     Some(IF p.cursor[1] >= 2 THEN p.cursor[1] - 2 ELSE p.cursor[1] - 1)],
                 "true")
    ELSE PResult(p, "false")

\* (Left, Some(cursor)) if *cursor != 0 => *cursor -= 1
ParagraphLeft(p) ==
    IF IsSome(p.cursor) /\ p.cursor[1] # 0
    THEN PResult([p EXCEPT !.cursor = Some(p.cursor[1] - 1)], "true")
    ELSE PResult(p, "false")

\* self.text.len() - 1
LastIndex(p) == Len(p.text) - 1

\* (Right, Some(cursor)) if *cursor != self.text.len() - 1 => *cursor += 1
ParagraphRight(p, oc) ==
    IF ~IsSome(p.cursor) THEN PResult(p, "false")
    ELSE IF Len(p.text) = 0 /\ oc THEN PResult(p, "panic")
    ELSE IF p.cursor[1] # LastIndex(p)
         THEN IF p.cursor[1] = -1 /\ oc
              THEN PResult(p, "panic")
              ELSE PResult([p EXCEPT !.cursor = Some(p.cursor[1] + 1)], "true")
         ELSE PResult(p, "false")

\* (CursorLeave, Some(_)) => self.cursor = None
ParagraphLeave(p) ==
    IF IsSome(p.cursor)
    THEN PResult([p EXCEPT !.cursor = None], "true")
    ELSE PResult(p, "false")

\* (CursorEnterH(false), _) => Some(0); (CursorEnterH(true), _) => Some(len - 1)
ParagraphEnterH(p, from_right, oc) ==
    IF ~from_right THEN PResult([p EXCEPT !.cursor = Some(0)], "true")
    ELSE IF Len(p.text) = 0 /\ oc THEN PResult(p, "panic")
    ELSE PResult([p EXCEPT !.cursor = Some(LastIndex(p))], "true")

\* (CursorEnterV(cursor, _), _) => self.set_normalized_cursor(*cursor)
ParagraphEnterV(p, column) == PResult(set_normalized_cursor(p, column), "true")

\* Vec::remove(index): text without its element at the 0-based index
RemoveAt(s, index) == SubSeq(s, 1, index) \o SubSeq(s, index + 2, Len(s))

\* faulty variant of ParagraphDelete: the boundary case answered true
ParagraphDelete_Swallow(p, motion) ==
    IF motion = "Left" /\ IsSome(p.cursor) /\ p.cursor[1] > 0 /\ p.cursor[1] <= Len(p.text)
    THEN PResult(Paragraph(SubSeq(p.text, 1, p.cursor[1] - 1)
                             \o SubSeq(p.text, p.cursor[1] + 1, Len(p.text)),
                           Some(p.cursor[1] - 1)), "true")
    ELSE PResult(p, IF motion = "Left" /\ p.cursor = Some(0) THEN "true" ELSE "false")

\* (Delete(Motion::Left), Some(cursor)) if *cursor > 0 => remove(cursor - 1)
ParagraphDelete(p, motion) ==
    IF motion = "Left" /\ IsSome(p.cursor) /\ p.cursor[1] # 0
    THEN LET index == p.cursor[1] - 1 IN
         IF index < 0 \/ index >= Len(p.text)
         THEN PResult(p, "panic")
         ELSE PResult(Paragraph(RemoveAt(p.text, index), Some(index)), "true")
    ELSE PResult(p, "false")

Contains(s, x) == \E i \in 1..Len(s) : s[i] = x

\* the graphemes of chars in front of its first line break
BeforeLineBreak(chars) ==
    IF Contains(chars, LineBreak)
    THEN SubSeq(chars, 1,
                (CHOOSE k \in 1..Len(chars) :
                    /\ chars[k] = LineBreak
                    /\ \A j \in 1..(k - 1) : chars[j] # LineBreak) - 1)
    ELSE chars

\* faulty variant of ParagraphInsert: the input is cut at its first line break
\* and the rest inserted
ParagraphInsert_Truncating(p, chars) ==
    IF ~IsSome(p.cursor) THEN PResult(p, "false")
    ELSE IF p.cursor[1] < 0 \/ p.cursor[1] > Len(p.text) THEN PResult(p, "panic")
    ELSE PResult(Paragraph(SubSeq(p.text, 1, p.cursor[1]) \o BeforeLineBreak(chars)
                             \o SubSeq(p.text, p.cursor[1] + 1, Len(p.text)),
                           Some(p.cursor[1] + Len(BeforeLineBreak(chars)))),
                 "true")

\* faulty variant of ParagraphInsert: a missing cursor is taken as index 0
ParagraphInsert_AtStart(p, chars) ==
    IF Contains(chars, LineBreak) THEN PResult(p, "todo")
    ELSE IF IsSome(p.cursor) /\ (p.cursor[1] < 0 \/ p.cursor[1] > Len(p.text))
         THEN PResult(p, "panic")
    ELSE IF IsSome(p.cursor)
         THEN PResult(Paragraph(SubSeq(p.text, 1, p.cursor[1]) \o chars
                                  \o SubSeq(p.text, p.cursor[1] + 1, Len(p.text)),
                                Some(p.cursor[1] + Len(chars))),
                      "true")
    ELSE PResult(Paragraph(chars \o p.text, Some(Len(chars))), "true")

\* (Insert(chars), Some(cursor)) => split_off, extend, extend, cursor += len
ParagraphInsert(p, chars) ==
    IF ~IsSome(p.cursor) THEN PResult(p, "false")
    ELSE IF Contains(chars, LineBreak) THEN PResult(p, "todo")
    ELSE LET cursor == p.cursor[1] IN
         IF cursor < 0 \/ cursor > Len(p.text)
         THEN PResult(p, "panic")
         ELSE PResult(Paragraph(SubSeq(p.text, 1, cursor) \o chars
                                  \o SubSeq(p.text, cursor + 1, Len(p.text)),
                                Some(cursor + Len(chars))),
                      "true")

\* impl Commandee for Paragraph
Paragraph_command(p, cmd, oc) ==
    CASE cmd.type = "Left" -> ParagraphLeft(p)
      [] cmd.type = "Right" -> ParagraphRight(p, oc)
      [] cmd.type = "CursorLeave" -> ParagraphLeave(p)
      [] cmd.type = "CursorEnterH" -> ParagraphEnterH(p, cmd.flag, oc)
      [] cmd.type = "CursorEnterV" -> ParagraphEnterV(p, cmd.n)
      [] cmd.type = "Delete" -> ParagraphDelete(p, cmd.motion)
      [] cmd.type = "Insert" -> ParagraphInsert(p, cmd.chars)
      [] OTHER -> PResult(p, "false")

(***************************************************************************)
(* Table                                                                   *)
(***************************************************************************)
Table(cells, active_cell, h, w) ==
    [cells |-> cells, active_cell |-> active_cell, height |-> h, width |-> w]

\* Table::neighbor.  overflow: the subtraction underflowed (row or column 0).
neighbor(t, direction) ==
    IF ~IsSome(t.active_cell) THEN [overflow |-> FALSE, cell |-> None]
    ELSE LET x == t.active_cell[1][1]
             y == t.active_cell[1][2]
         IN CASE direction.type = "Up" ->
                   [overflow |-> y = 0, cell |-> Some(<<x, y - 1>>)]
              [] direction.type = "Left" ->
                   [overflow |-> x = 0, cell |-> Some(<<x - 1, y>>)]
              [] direction.type = "Down" ->
                   [overflow |-> FALSE, cell |-> Some(<<x, y + 1>>)]
              [] direction.type = "Right" ->
                   [overflow |-> FALSE, cell |-> Some(<<x + 1, y>>)]
              [] OTHER -> [overflow |-> FALSE, cell |-> None]

\* t: the table as the call leaves it; ret: the response or the abort;
\* pret: what the cell answered to the forwarded command ("none": not asked)
TResult(t, r, pr) == [t |-> t, ret |-> r, pret |-> pr]

SetCell(t, c, p) == [t EXCEPT !.cells = [t.cells EXCEPT ![c] = p]]

\* end of the first match arm: the neighbor has answered the enter command
NeighborEntered(t, nb, enter) ==
    IF IsAbort(enter.ret) THEN TResult(t, enter.ret, "false")
    ELSE TResult([SetCell(t, nb, enter.p) EXCEPT !.active_cell = Some(nb)],
                 "true", "false")

\* faulty variant of EnterNeighbor: a missing neighbor is made on the way, as
\* cells.entry(neighbor).or_default() would
EnterNeighbor_OrDefault(t, nb, cmd, cursor, oc) ==
    NeighborEntered([t EXCEPT !.cells =
                        [c \in DOMAIN t.cells \cup {nb} |->
                            IF c \in DOMAIN t.cells THEN t.cells[c]
                            ELSE Paragraph(<<>>, None)]],
                    nb,
                    Paragraph_command(IF nb \in DOMAIN t.cells THEN t.cells[nb]
                                      ELSE Paragraph(<<>>, None),
                                      IF horizontal(cmd)
                                      THEN CursorEnterH(cmd = Left)
                                      ELSE CursorEnterV(cursor, cmd = Up),
                                      oc))

\* self.cells.get_mut(&neighbor).unwrap(), then CursorEnterH(command == &Left)
\* or CursorEnterV(cursor, command == &Up)
EnterNeighbor(t, nb, cmd, cursor, oc) ==
    IF nb \notin DOMAIN t.cells THEN TResult(t, "panic", "false")
    ELSE NeighborEntered(t, nb,
                         Paragraph_command(t.cells[nb],
                                           IF horizontal(cmd)
                                           THEN CursorEnterH(cmd = Left)
                                           ELSE CursorEnterV(cursor, cmd = Up),
                                           oc))

\* the first match arm of Table::command: leave the cell, enter the neighbor
MoveToNeighbor(t, active, cell, nb, cmd, oc) ==
    IF ~IsSome(get_normalized_cursor(cell)) THEN TResult(t, "panic", "false")
    ELSE EnterNeighbor(SetCell(t, active, Paragraph_command(cell, CursorLeave, oc).p),
                       nb, cmd, get_normalized_cursor(cell)[1], oc)

\* the match of Table::command on (command, cell.command(command), neighbor);
\* r: the answer of the active cell, nbr: the neighbor computed before it
CellAnswered(t, active, nbr, cmd, oc, r) ==
    LET t1 == SetCell(t, active, r.p) IN
    IF IsAbort(r.ret) THEN TResult(t1, r.ret, r.ret)
    ELSE IF cmd.type \in Directional /\ r.ret = "false" /\ IsSome(nbr.cell)
         THEN MoveToNeighbor(t1, active, r.p, nbr.cell[1], cmd, oc)
    ELSE IF cmd.type \in {"Left", "Right"} /\ r.ret = "true"
         THEN TResult(t1, "true", r.ret)
    ELSE IF cmd.type \in {"Left", "Right"} /\ r.ret = "false" /\ ~IsSome(nbr.cell)
         THEN TResult(t1, "false", r.ret)
    ELSE IF r.ret = "true" THEN TResult(t1, "true", r.ret)
    ELSE IF cmd.type = "Delete" /\ cmd.motion = "Left"
         THEN TResult(t1, "true", r.ret)
    ELSE TResult(t1, "todo", r.ret)

\* Table::command with an active cell
FocusedCommand(t, cmd, oc) ==
    IF neighbor(t, cmd).overflow /\ oc THEN TResult(t, "panic", "none")
    ELSE IF t.active_cell[1] \notin DOMAIN t.cells THEN TResult(t, "panic", "none")
    ELSE CellAnswered(t, t.active_cell[1], neighbor(t, cmd), cmd, oc,
                      Paragraph_command(t.cells[t.active_cell[1]], cmd, oc))

\* the cell (0, 0) has answered the enter command
FirstCellEntered(t, r) ==
    IF IsAbort(r.ret) THEN TResult(t, r.ret, r.ret)
    ELSE TResult(SetCell(t, <<0, 0>>, r.p), "true", r.ret)

\* self.active_cell = Some((0, 0)); self.cells.get_mut(&(0, 0)).unwrap()
EnterFirstCell(t, cmd, oc) ==
    IF <<0, 0>> \notin DOMAIN t.cells THEN TResult(t, "panic", "none")
    ELSE FirstCellEntered(t, Paragraph_command(t.cells[<<0, 0>>], cmd, oc))

\* faulty variant of UnfocusedCommand: the entry point is made the active cell
\* before the command is looked at
UnfocusedCommand_Eager(t, cmd, oc) ==
    IF cmd.type \in {"CursorEnterH", "CursorEnterV"} /\ ~cmd.flag
    THEN EnterFirstCell([t EXCEPT !.active_cell = Some(<<0, 0>>)], cmd, oc)
    ELSE TResult([t EXCEPT !.active_cell = Some(<<0, 0>>)], "false", "none")

\* Table::command without an active cell
UnfocusedCommand(t, cmd, oc) ==
    IF cmd.type \in {"CursorEnterH", "CursorEnterV"} /\ ~cmd.flag
    THEN EnterFirstCell([t EXCEPT !.active_cell = Some(<<0, 0>>)], cmd, oc)
    ELSE TResult(t, "false", "none")

\* impl Commandee for Table (and for Element, which only forwards)
Table_command(t, cmd, oc) ==
    IF IsSome(t.active_cell)
    THEN FocusedCommand(t, cmd, oc)
    ELSE UnfocusedCommand(t, cmd, oc)

(***************************************************************************)
(* Document                                                                *)
(***************************************************************************)
\* enter: the command the Document sent to the element it moved to, if it moved
DResult(els, active, r, tr, pr) ==
    [elements |-> els, active_element |-> active, ret |-> r, tret |-> tr, pret |-> pr,
     enter |-> None]

\* faulty variant of ElementEntered: the index is moved one element too far
ElementEntered_OffByOne(els, target, from_right, tr, pr, enter) ==
    [DResult([els EXCEPT ![target + 1] = enter.t], target + 1,
             IF IsAbort(enter.ret) THEN enter.ret ELSE "true", tr, pr)
        EXCEPT !.enter = Some(CursorEnterH(from_right))]

\* the new element has answered CursorEnterH
ElementEntered(els, target, from_right, tr, pr, enter) ==
    [DResult([els EXCEPT ![target + 1] = enter.t], target,
             IF IsAbort(enter.ret) THEN enter.ret ELSE "true", tr, pr)
        EXCEPT !.enter = Some(CursorEnterH(from_right))]

\* the current element has answered CursorLeave: move the index and enter
ElementLeft(els, active, target, from_right, tr, pr, oc, leave) ==
    IF IsAbort(leave.ret)
    THEN DResult([els EXCEPT ![active + 1] = leave.t], active, leave.ret, tr, pr)
    ELSE ElementEntered([els EXCEPT ![active + 1] = leave.t], target, from_right, tr, pr,
                        Table_command([els EXCEPT ![active + 1] = leave.t][target + 1],
                                      CursorEnterH(from_right), oc))

\* the (Up | Left, false) and (Down | Right, false) arms: CursorLeave to the
\* current element, move the index, CursorEnterH into the new element
MoveToElement(els, active, target, from_right, tr, pr, oc) ==
    ElementLeft(els, active, target, from_right, tr, pr, oc,
                Table_command(els[active + 1], CursorLeave, oc))

\* the match of Document::command on (command, element.command(command));
\* r: the answer of the active element
ElementAnswered(els, active, cmd, oc, r) ==
    LET els1 == [els EXCEPT ![active + 1] = r.t] IN
    IF IsAbort(r.ret) THEN DResult(els1, active, r.ret, r.ret, r.pret)
    ELSE IF cmd.type \in {"Up", "Left"} /\ r.ret = "false"
         THEN IF active > 0
              THEN MoveToElement(els1, active, active - 1, TRUE, r.ret, r.pret, oc)
              ELSE DResult(els1, active, "true", r.ret, r.pret)
    ELSE IF cmd.type \in {"Down", "Right"} /\ r.ret = "false"
         THEN IF active < Len(els) - 1
              THEN MoveToElement(els1, active, active + 1, FALSE, r.ret, r.pret, oc)
              ELSE DResult(els1, active, "true", r.ret, r.pret)
    ELSE DResult(els1, active, "false", r.ret, r.pret)

\* impl Commandee for Document; self.elements[self.active_element] panics on
\* an index out of bounds
Document_command(els, active, cmd, oc) ==
    IF active >= Len(els) THEN DResult(els, active, "panic", "none", "none")
    ELSE ElementAnswered(els, active, cmd, oc, Table_command(els[active + 1], cmd, oc))

(***************************************************************************)
(* The session: a caller submits one command at a time to the Document.    *)
(***************************************************************************)
Aborted == IsAbort(last.ret)

Cells(t) == DOMAIN t.cells

\* the guards that keep the model finite
WithinBounds(els) ==
    \A e \in 1..Len(els) : \A c \in Cells(els[e]) :
        /\ Len(els[e].cells[c].text) <= MaxLen
        /\ IsSome(els[e].cells[c].cursor) =>
              /\ els[e].cells[c].cursor[1] >= 0 - WrapDepth
              /\ els[e].cells[c].cursor[1] <= MaxCursor

\* Document::command applied to the session's document.  A command that
\* aborts ends the session: the document is lost with it.
Submit(cmd) ==
    \E r \in {Document_command(elements, active_element, cmd, overflow_checks)} :
       /\ WithinBounds(r.elements)
       /\ elements' = IF IsAbort(r.ret) THEN <<>> ELSE r.elements
       /\ active_element' = IF IsAbort(r.ret) THEN 0 ELSE r.active_element
       /\ last' = [type |-> cmd.type, ret |-> r.ret, tret |-> r.tret, pret |-> r.pret,
                   enter |-> r.enter]
       /\ UNCHANGED <<overflow_checks, modelVars, md>>

Unlimited == 0 - 1

\* an Insert or Delete takes one unit of the budget
Spend ==
    /\ budget # 0
    /\ budget' = IF budget = Unlimited THEN Unlimited ELSE budget - 1

InsertInputs ==
    {<<g>> : g \in Graphemes} \cup {<<>>, <<"a", "hao">>, <<LineBreak>>, <<"a", LineBreak>>}

SendUp == ~Aborted /\ Submit(Up) /\ UNCHANGED budget
SendLeft == ~Aborted /\ Submit(Left) /\ UNCHANGED budget
SendDown == ~Aborted /\ Submit(Down) /\ UNCHANGED budget
SendRight == ~Aborted /\ Submit(Right) /\ UNCHANGED budget
SendCursorEnterH ==
    \E from_right \in BOOLEAN :
        ~Aborted /\ Submit(CursorEnterH(from_right)) /\ UNCHANGED budget
SendCursorEnterV ==
    \E column \in 0..MaxColumn, from_bottom \in BOOLEAN :
        ~Aborted /\ Submit(CursorEnterV(column, from_bottom)) /\ UNCHANGED budget
SendCursorLeave == ~Aborted /\ Submit(CursorLeave) /\ UNCHANGED budget
SendInsert == \E chars \in InsertInputs : ~Aborted /\ Spend /\ Submit(Insert(chars))
SendDelete == \E motion \in Motions : ~Aborted /\ Spend /\ Submit(Delete(motion))

Next ==
    \/ SendUp
    \/ SendLeft
    \/ SendDown
    \/ SendRight
    \/ SendCursorEnterH
    \/ SendCursorEnterV
    \/ SendCursorLeave
    \/ SendInsert
    \/ SendDelete

(***************************************************************************)
(* Initial documents.  A table is as Table::parse_from_md leaves it: no    *)
(* active cell, no cursor, a cell only where a Text event arrived.         *)
(***************************************************************************)
Texts(lo, hi) == UNION {[1..n -> Graphemes] : n \in lo..hi}

Coordinates(w, h) == (0..(w - 1)) \X (0..(h - 1))

\* a full w x h grid of one-grapheme cells
GridTable(w, h) ==
    Table([c \in Coordinates(w, h) |-> Paragraph(<<"a">>, None)], None, h, w)

\* texts of graphemes of every width
WideTexts(lo, hi) == UNION {[1..n -> AllGraphemes] : n \in lo..hi}

\* a one-column table of two rows whose cells hold any text
ColumnTables ==
    {Table([c \in Coordinates(1, 2) |-> Paragraph(text[c], None)], None, 2, 1) :
        text \in {tx \in [Coordinates(1, 2) -> WideTexts(1, MaxLen)] :
                     Len(tx[<<0, 0>>]) + Len(tx[<<0, 1>>]) <= MaxColumnText}}

InitLast ==
    [type |-> "", ret |-> "none", tret |-> "none", pret |-> "none", enter |-> None]

\* a session on a Document has no editor and no ingestion under way
NoModel ==
    /\ lines = <<>>
    /\ cursor_position = <<0, 0>>
    /\ mode = "Normal"
    /\ command = <<>>
    /\ md = <<>>

\* the documents of Spec: none, one or two copies of a grid table of up to
\* 2 x 2 cells
ElementCounts == 0..2
GridShapes == (1..2) \X (1..2)

\* grid documents, navigated and edited with a budget of MaxEdits Insert/Delete
\* commands
Init ==
    /\ \E n \in ElementCounts, shape \in GridShapes :
          elements = [i \in 1..n |-> GridTable(shape[1], shape[2])]
    /\ budget = MaxEdits
    /\ active_element = 0
    /\ overflow_checks \in BOOLEAN
    /\ last = InitLast
    /\ NoModel

\* a full w x h grid whose cells all hold the same text
TextGridTable(w, h, text) ==
    Table([c \in Coordinates(w, h) |-> Paragraph(text, None)], None, h, w)

\* grid documents of any cell text, navigated only
InitMotion ==
    /\ \E n \in ElementCounts, shape \in GridShapes, text \in Texts(1, MaxLen) :
          elements = [i \in 1..n |-> TextGridTable(shape[1], shape[2], text)]
    /\ budget = 0
    /\ active_element = 0
    /\ overflow_checks \in BOOLEAN
    /\ last = InitLast
    /\ NoModel

\* a document of one column table with arbitrary cell texts, navigated only
InitColumn ==
    /\ \E t \in ColumnTables : elements = <<t>>
    /\ budget = 0
    /\ active_element = 0
    /\ overflow_checks \in BOOLEAN
    /\ last = InitLast
    /\ NoModel

\* the tables of one row and one column: the cell holds any text, or it is
\* missing (the parser makes a cell only when it meets text for it)
SingleCellTables ==
    {Table([c \in Coordinates(1, 1) |-> Paragraph(text, None)], None, 1, 1) :
        text \in Texts(1, MaxLen)}
    \cup {Table(<<>>, None, 1, 1)}

\* a document of one single-cell table with arbitrary text, edited at will
InitCell ==
    /\ \E t \in SingleCellTables : elements = <<t>>
    /\ budget = Unlimited
    /\ active_element = 0
    /\ overflow_checks \in BOOLEAN
    /\ last = InitLast
    /\ NoModel

Navigation ==
    \/ SendUp
    \/ SendLeft
    \/ SendDown
    \/ SendRight
    \/ SendCursorEnterH
    \/ SendCursorEnterV
    \/ SendCursorLeave

\* focus enters a fresh Document from the left, once
EnterDocument ==
    last.type = "" /\ ~Aborted /\ Submit(CursorEnterH(FALSE)) /\ UNCHANGED budget

\* the commands of an editing session on a Document that has the focus
FocusedUp == last.type # "" /\ SendUp
FocusedLeft == last.type # "" /\ SendLeft
FocusedDown == last.type # "" /\ SendDown
FocusedRight == last.type # "" /\ SendRight
FocusedInsert == last.type # "" /\ SendInsert
FocusedDeleteLeft ==
    last.type # "" /\ ~Aborted /\ Spend /\ Submit(Delete("Left"))

FocusedEditing ==
    \/ EnterDocument
    \/ FocusedUp
    \/ FocusedLeft
    \/ FocusedDown
    \/ FocusedRight
    \/ FocusedInsert
    \/ FocusedDeleteLeft

\* the focused cell is sent CursorEnterV with its own normalized column:
\* get_normalized_cursor and set_normalized_cursor on the same Paragraph
ReenterAtOwnColumn ==
    /\ ~Aborted
    /\ active_element < Len(elements)
    /\ IsSome(elements[active_element + 1].active_cell)
    /\ elements[active_element + 1].active_cell[1] \in Cells(elements[active_element + 1])
    /\ \E cell \in {elements[active_element + 1].cells[
                         elements[active_element + 1].active_cell[1]]} :
          /\ IsSome(cell.cursor)
          /\ Submit(CursorEnterV(get_normalized_cursor(cell)[1], FALSE))
    /\ UNCHANGED budget

\* moving inside one cell and entering it at a column
Converting ==
    \/ SendCursorEnterH
    \/ SendLeft
    \/ SendRight
    \/ SendCursorEnterV
    \/ ReenterAtOwnColumn

\* grid documents: every command of the vocabulary
Spec == Init /\ [][Next]_vars

\* grid documents: focus enters, then moves and edits
SpecFocus == Init /\ [][FocusedEditing]_vars

\* two vertically adjacent cells of any content: the navigation commands
SpecColumn == InitColumn /\ [][Navigation]_vars

\* grid documents of any cell text: the navigation commands
SpecMotion == InitMotion /\ [][Navigation]_vars

\* one cell of any content: every command of the vocabulary
SpecCell == InitCell /\ [][Next]_vars

\* one cell of any content: the conversions between index and column
SpecConvert == InitCell /\ [][Converting]_vars

(***************************************************************************)
(* The line editor (src/src/main.rs).  A text is a sequence of graphemes;  *)
(* "star" stands for the character '*', LineBreak for '\n'.  A TextLine is *)
(* the sequence of its characters: (grapheme, style set, byte offset).     *)
(* The key of a TextLine (a random Uuid) and Model.font take no part in    *)
(* what is modelled here.                                                  *)
(***************************************************************************)
Star == "star"

\* str::len of one grapheme: its UTF-8 bytes
ByteLen(g) ==
    CASE g = "a" -> 1
      [] g = Star -> 1
      [] g = LineBreak -> 1
      [] g = "hao" -> 3
      [] g = "zw" -> 3
      [] g = "flag" -> 8
      [] OTHER -> 1

RECURSIVE ByteSum(_)
ByteSum(text) == IF text = <<>> THEN 0 ELSE ByteLen(Head(text)) + ByteSum(Tail(text))

\* the byte index of the i-th grapheme (1-based) of a text
ByteIndex(text, i) == ByteSum(SubSeq(text, 1, i - 1))

Character(value, style, offset) == [value |-> value, style |-> style, offset |-> offset]

\* impl From<S> for TextLine: grapheme_indices, no style
TextLine_from(text) ==
    [i \in 1..Len(text) |-> Character(text[i], {}, ByteIndex(text, i))]

\* impl ToString for TextLine
to_string(line) == [i \in 1..Len(line) |-> line[i].value]

\* TextLine::char_len
char_len(line) == ByteSum(to_string(line))

\* str::split('\n'): the segments between the line breaks
RECURSIVE split(_)
split(value) ==
    IF \A i \in 1..Len(value) : value[i] # LineBreak THEN <<value>>
    ELSE LET i == CHOOSE j \in 1..Len(value) :
                      /\ value[j] = LineBreak
                      /\ \A h \in 1..(j - 1) : value[h] # LineBreak
         IN <<SubSeq(value, 1, i - 1)>> \o split(SubSeq(value, i + 1, Len(value)))

\* enum Msg
CursorMove(x, y) == [type |-> "CursorMove", x |-> x, y |-> y]
CursorPos(x, y) == [type |-> "CursorPos", x |-> x, y |-> y]
Write(text) == [type |-> "Write", text |-> text]
Mode(m) == [type |-> "Mode", mode |-> m]
ExecuteCommand == [type |-> "ExecuteCommand"]

\* the graphemes of the first segment, placed after the byte start_offset
Inserted(graphemes, start_offset) ==
    [i \in 1..Len(graphemes) |->
        Character(graphemes[i], {}, ByteIndex(graphemes, i) + start_offset)]

\* remainder.into_iter().enumerate().map(|(i, (c, s, _))| (c, s, i + last_line_len))
Shifted(remainder, last_line_len) ==
    [i \in 1..Len(remainder) |->
        Character(remainder[i].value, remainder[i].style, (i - 1) + last_line_len)]

\* what TextLine::insert leaves and returns: self, (move_action, new_lines)
IResult(self, move_action, new_lines) ==
    [self |-> self, move_action |-> move_action, new_lines |-> new_lines]

\* the branch of TextLine::insert on new_lines.is_empty(); head: self up to
\* position with the first segment appended
InsertTail(head, n, new_lines, remainder) ==
    IF new_lines # <<>>
    THEN LET k == Len(new_lines)
             last_line == new_lines[k]
         IN IResult(head,
                    <<CursorMove(0, k), CursorPos(Some(Len(last_line)), None)>>,
                    [new_lines EXCEPT ![k] = last_line \o Shifted(remainder, Len(last_line))])
    ELSE IResult(head \o Shifted(remainder, Len(head)), <<CursorMove(n, 0)>>, <<>>)

\* TextLine::insert for a position in 0..=len (the callers clamp it)
TextLine_insert(self, position, value) ==
    LET segments == split(value)
        start_offset ==
            IF position = 0 THEN 0
            ELSE self[position].offset + ByteLen(self[position].value)
    IN InsertTail(SubSeq(self, 1, position) \o Inserted(segments[1], start_offset),
                  Len(segments[1]),
                  [j \in 1..(Len(segments) - 1) |-> TextLine_from(segments[j + 1])],
                  SubSeq(self, position + 1, Len(self)))

(***************************************************************************)
(* Model::parse_md.  The markdown parser is a library; Highlighting gives  *)
(* the styled ranges it reports for the texts of the model: a run of n     *)
(* stars, a non-empty content without stars that neither begins nor ends   *)
(* with a line break nor holds a blank line, and a run of m stars delimit  *)
(* emphasis (Italic) when min(n, m) is odd and strong emphasis (Bold) when *)
(* min(n, m) >= 2; the range includes the min(n, m) delimiters on each     *)
(* side.                                                                   *)
(***************************************************************************)
Annotation(style, start, end) == [style |-> style, start |-> start, end |-> end]

\* lines.iter().collect::<String>(): the lines joined by line breaks
RECURSIVE Joined(_)
Joined(ls) ==
    IF ls = <<>> THEN <<>>
    ELSE IF Len(ls) = 1 THEN to_string(ls[1])
    ELSE to_string(ls[1]) \o <<LineBreak>> \o Joined(Tail(ls))

\* the end (exclusive) of the run of graphemes from i on that satisfy: star
\* (stars = TRUE) or not star (stars = FALSE)
RECURSIVE RunEnd(_, _, _)
RunEnd(text, i, stars) ==
    IF i > Len(text) \/ (text[i] = Star) # stars THEN i
    ELSE RunEnd(text, i + 1, stars)

ValidContent(text, from, to) ==
    /\ from < to
    /\ text[from] # LineBreak
    /\ text[to - 1] # LineBreak
    /\ \A i \in from..(to - 2) : ~(text[i] = LineBreak /\ text[i + 1] = LineBreak)

Delimited(text, content, close, k) ==
    LET start == ByteIndex(text, content) - k
        end == ByteIndex(text, close) + k
    IN (IF k % 2 = 1 THEN {Annotation("Italic", start, end)} ELSE {})
       \cup (IF k >= 2 THEN {Annotation("Bold", start, end)} ELSE {})

RECURSIVE Emphases(_, _)
Emphases(text, i) ==
    IF i > Len(text) THEN {}
    ELSE IF text[i] # Star THEN Emphases(text, i + 1)
    ELSE LET content == RunEnd(text, i, TRUE)
             close == RunEnd(text, content, FALSE)
             after == RunEnd(text, close, TRUE)
         IN IF ValidContent(text, content, close) /\ after > close
            THEN Delimited(text, content, close, Min(content - i, after - close))
                   \cup Emphases(text, after)
            ELSE Emphases(text, content)

Highlighting(text) == Emphases(text, 1)

\* the style set of one character at the running line offset
Styled(character, offset, highlighting) ==
    [character EXCEPT !.style =
        {hi.style : hi \in {h \in highlighting :
                              /\ h.start <= character.offset + offset
                              /\ h.end > character.offset + offset}}]

\* the loop of parse_md over the lines; offset: the running line offset
RECURSIVE StyledLines(_, _, _)
StyledLines(ls, offset, highlighting) ==
    IF ls = <<>> THEN <<>>
    ELSE <<[i \in 1..Len(ls[1]) |-> Styled(ls[1][i], offset, highlighting)]>>
         \o StyledLines(Tail(ls), offset + char_len(ls[1]) + 1, highlighting)

parse_md(ls) == StyledLines(ls, 0, Highlighting(Joined(ls)))

(***************************************************************************)
(* Model::update.  A Model is the record of its fields and of ret, the     *)
(* value the call is about to return ("panic": the call has panicked).     *)
(***************************************************************************)
Modes == {"Insert", "Normal", "Command"}

Max(a, b) == IF a >= b THEN a ELSE b

\* a.min(b) for two usize, a negative integer standing for a wrapped value
usize_min(a, b) == IF a < 0 THEN b ELSE IF b < 0 THEN a ELSE Min(a, b)

Panicked(m) == [m EXCEPT !.ret = "panic"]

\* ret |= changed
Flagged(m, changed) == IF changed THEN [m EXCEPT !.ret = "true"] ELSE m

\* the line under the cursor
CursorLine(m) == m.lines[m.cursor_position[2] + 1]

\* cursor_position.0 = ((cursor_position.0.min(max_x) as i32 + x).max(0) as usize).min(max_x)
MovedX(m, x, max_x) ==
    [m EXCEPT !.cursor_position[1] =
        usize_min(Max(usize_min(@, max_x) + x, 0), max_x)]

\* the second half of the CursorMove arm; m: the Model after the row moved
CursorMovedX(m, x, oc) ==
    IF x = 0 THEN m
    ELSE IF m.cursor_position[2] >= Len(m.lines) THEN Panicked(m)
    ELSE IF m.mode = "Insert" THEN MovedX(m, x, Len(CursorLine(m)))
    ELSE IF Len(CursorLine(m)) = 0 /\ oc THEN Panicked(m)
    ELSE MovedX(m, x, Len(CursorLine(m)) - 1)

\* ret |= last != self.cursor_position; moved: the Model after the move
CursorCompared(m, moved) ==
    IF IsAbort(moved.ret) THEN moved
    ELSE Flagged(moved, moved.cursor_position # m.cursor_position)

\* Msg::CursorMove(x, y)
CursorMoved(m, x, y, oc) ==
    IF Len(m.lines) = 0 /\ oc THEN Panicked(m)
    ELSE CursorCompared(m, CursorMovedX([m EXCEPT !.cursor_position[2] =
                                            usize_min(Max(@ + y, 0), Len(m.lines) - 1)],
                                        x, oc))

\* Msg::CursorPos(x, y)
CursorPlaced(m, x, y) ==
    [m EXCEPT !.cursor_position =
        <<IF IsSome(x) THEN x[1] ELSE @[1], IF IsSome(y) THEN y[1] ELSE @[2]>>]

\* Msg::Mode(mode)
ModeSet(m, new_mode, oc) ==
    IF new_mode = m.mode THEN m
    ELSE IF m.mode # "Insert" THEN [m EXCEPT !.mode = new_mode, !.ret = "true"]
    ELSE IF m.cursor_position[2] >= Len(m.lines) THEN Panicked(m)
    ELSE IF Len(CursorLine(m)) = 0 /\ oc THEN Panicked(m)
    ELSE [m EXCEPT !.cursor_position[1] = usize_min(@, Len(CursorLine(m)) - 1),
                   !.mode = new_mode,
                   !.ret = "true"]

\* Msg::ExecuteCommand.  Model::execute acts on the words of the command
\* that hold '=', a character no text of the model holds.
CommandExecuted(m) == [m EXCEPT !.command = <<>>, !.ret = "true"]

\* faulty variant of WithNewLines: the new lines are placed without .rev()
WithNewLines_Reversed(ls, y, self, new_lines) ==
    SubSeq(ls, 1, y) \o <<self>>
        \o [j \in 1..Len(new_lines) |-> new_lines[Len(new_lines) + 1 - j]]
        \o SubSeq(ls, y + 2, Len(ls))

\* for line in new_lines.into_iter().rev() { lines.insert(cursor_position.1 + 1, line) }
WithNewLines(ls, y, self, new_lines) ==
    SubSeq(ls, 1, y) \o <<self>> \o new_lines \o SubSeq(ls, y + 2, Len(ls))

\* the end of both Write arms; m: the Model after update(cursor_movement)
Parsed(m) ==
    IF IsAbort(m.ret) THEN m
    ELSE [m EXCEPT !.lines = parse_md(@), !.ret = "true"]

RECURSIVE update(_, _, _)

\* Msg::Write(text) in command mode; r: what command.insert returned
CommandWritten(m, r, oc) ==
    IF r.new_lines # <<>> THEN Panicked([m EXCEPT !.command = r.self])
    ELSE Parsed(update([m EXCEPT !.command = r.self, !.ret = "false"],
                       r.move_action, oc))

\* Msg::Write(text) in the other modes; r: what line.insert returned
LineWritten(m, r, oc) ==
    Parsed(update([m EXCEPT !.lines = WithNewLines(@, m.cursor_position[2],
                                                   r.self, r.new_lines),
                            !.ret = "false"],
                  r.move_action, oc))

Written(m, text, oc) ==
    IF m.mode = "Command"
    THEN CommandWritten(m, TextLine_insert(m.command,
                                           usize_min(m.cursor_position[1], Len(m.command)),
                                           text), oc)
    ELSE IF m.cursor_position[2] >= Len(m.lines) THEN Panicked(m)
    ELSE LineWritten(m, TextLine_insert(CursorLine(m),
                                        usize_min(m.cursor_position[1], Len(CursorLine(m))),
                                        text), oc)

\* the match on one message
Handled(m, msg, oc) ==
    CASE msg.type = "CursorMove" -> CursorMoved(m, msg.x, msg.y, oc)
      [] msg.type = "Write" -> Written(m, msg.text, oc)
      [] msg.type = "Mode" -> ModeSet(m, msg.mode, oc)
      [] msg.type = "CursorPos" -> CursorPlaced(m, msg.x, msg.y)
      [] msg.type = "ExecuteCommand" -> CommandExecuted(m)

\* impl Component for Model: update; a panic ends the loop
update(m, msgs, oc) ==
    IF msgs = <<>> \/ IsAbort(m.ret) THEN m
    ELSE update(Handled(m, Head(msgs), oc), Tail(msgs), oc)

(***************************************************************************)
(* The session of an editor: messages arrive as Model::handle_key_press    *)
(* sends them, one batch to a call of update.  A call that panics ends the *)
(* session: the Model is lost with it.                                     *)
(***************************************************************************)
TheModel ==
    [lines |-> lines, cursor_position |-> cursor_position, mode |-> mode,
     command |-> command, ret |-> "false"]

RECURSIVE Longest(_)
Longest(ls) == IF ls = <<>> THEN 0 ELSE Max(Len(Head(ls)), Longest(Tail(ls)))

\* the guard that keeps the model finite: on an empty line a build without
\* overflow checks lets the cursor run to the right without limit
WithinModelBounds(m) ==
    m.cursor_position[1] <= Max(Longest(m.lines), Len(m.command)) + 1

Deliver(msgs) ==
    \E m \in {update(TheModel, msgs, overflow_checks)} :
       /\ WithinModelBounds(m)
       /\ lines' = IF IsAbort(m.ret) THEN <<>> ELSE m.lines
       /\ cursor_position' = IF IsAbort(m.ret) THEN <<0, 0>> ELSE m.cursor_position
       /\ mode' = IF IsAbort(m.ret) THEN "Normal" ELSE m.mode
       /\ command' = IF IsAbort(m.ret) THEN <<>> ELSE m.command
       /\ last' = [type |-> msgs[1].type, ret |-> m.ret, msg |-> msgs[1]]
       /\ UNCHANGED <<documentVars, overflow_checks, md>>

\* the arrow keys and h, j, k, l
Steps == {<<0 - 1, 0>>, <<1, 0>>, <<0, 0 - 1>>, <<0, 1>>}

\* the texts written: a key's grapheme, Enter's line break, and longer texts
WriteInputs ==
    {<<"a">>, <<"hao">>, <<Star>>, <<LineBreak>>, <<>>, <<"hao", LineBreak, "a">>,
     <<"a", LineBreak, LineBreak, "hao">>}

SendCursorMove ==
    \E d \in Steps : ~Aborted /\ Deliver(<<CursorMove(d[1], d[2])>>) /\ UNCHANGED budget
SendWrite ==
    \E text \in WriteInputs :
        ~Aborted /\ mode # "Normal" /\ Spend /\ Deliver(<<Write(text)>>)
\* i and ':' in normal mode, Escape in the other modes
SendMode ==
    \E m \in Modes :
        ~Aborted /\ (mode = "Normal") # (m = "Normal") /\ Deliver(<<Mode(m)>>)
                 /\ UNCHANGED budget
\* Enter in command mode
SendExecuteCommand ==
    ~Aborted /\ mode = "Command" /\ Deliver(<<ExecuteCommand, Mode("Normal")>>)
             /\ UNCHANGED budget

Editing ==
    \/ SendCursorMove
    \/ SendWrite
    \/ SendMode
    \/ SendExecuteCommand

\* the documents an editor starts from: one or two lines without markup, or
\* one line with emphasis
TextsOver(alphabet, n) == UNION {[1..k -> alphabet] : k \in 0..n}

InitialDocuments ==
    {<<t>> : t \in TextsOver({"a", "hao"}, MaxLen)}
    \cup {<<s, t>> : s \in TextsOver({"a", "hao"}, 1), t \in TextsOver({"a", "hao"}, 1)}
    \cup {<<t>> : t \in {m \in TextsOver({"a", "hao", Star}, MaxMarked) :
                            Highlighting(m) # {}}}

\* Component::create: the lines of a text, parsed; the cursor at the origin
InitModel ==
    /\ \E texts \in InitialDocuments :
          lines = parse_md([i \in 1..Len(texts) |-> TextLine_from(texts[i])])
    /\ cursor_position = <<0, 0>>
    /\ mode = "Normal"
    /\ command = <<>>
    /\ budget = MaxEdits
    /\ overflow_checks \in BOOLEAN
    /\ last = [type |-> "", ret |-> "none", msg |-> <<>>]
    /\ elements = <<>>
    /\ active_element = 0
    /\ md = <<>>

\* documents without markup
PlainDocuments == {d \in InitialDocuments : Highlighting(Joined([i \in 1..Len(d) |-> TextLine_from(d[i])])) = {}}

\* an editor in insert mode (the key i has been pressed)
InitTyping ==
    /\ \E texts \in PlainDocuments :
          lines = parse_md([i \in 1..Len(texts) |-> TextLine_from(texts[i])])
    /\ cursor_position = <<0, 0>>
    /\ mode = "Insert"
    /\ command = <<>>
    /\ budget = MaxEdits
    /\ overflow_checks \in BOOLEAN
    /\ last = [type |-> "", ret |-> "none", msg |-> <<>>]
    /\ elements = <<>>
    /\ active_element = 0
    /\ md = <<>>

Typing ==
    \/ SendCursorMove
    \/ SendWrite

\* an editor in command mode (the key ':' has been pressed at the origin)
InitPrompt ==
    /\ \E texts \in PlainDocuments :
          lines = parse_md([i \in 1..Len(texts) |-> TextLine_from(texts[i])])
    /\ cursor_position = <<0, 0>>
    /\ mode = "Command"
    /\ command = <<>>
    /\ budget = 0
    /\ overflow_checks \in BOOLEAN
    /\ last = [type |-> "", ret |-> "none", msg |-> <<>>]
    /\ elements = <<>>
    /\ active_element = 0
    /\ md = <<>>

\* an insertable key in command mode: Msg::Write of its grapheme
TypeCommand ==
    \E g \in {"a", "hao", Star} :
        /\ ~Aborted
        /\ mode = "Command"
        /\ Len(command) < MaxPrompt
        /\ Deliver(<<Write(<<g>>)>>)
        /\ UNCHANGED budget

\* an editor on a small document: every message
SpecModel == InitModel /\ [][Editing]_vars

\* an editor that stays in insert mode: cursor moves and writes
SpecTyping == InitTyping /\ [][Typing]_vars

\* a command typed key by key
SpecPrompt == InitPrompt /\ [][TypeCommand]_vars

(***************************************************************************)
(* Line::view.  A span is a character with, for each of its styles, the    *)
(* Position that selects the style's classes.                              *)
(***************************************************************************)
TextStyles == {"Italic", "Bold", "Code"}

\* faulty variant of positioned: First and Last exchanged
positioned_Exchanged(self, was_style, will_style) ==
    IF self \in was_style
    THEN IF self \in will_style THEN "Sandwitched" ELSE "First"
    ELSE IF self \in will_style THEN "Last" ELSE "Single"

\* TextStyle::positioned
positioned(self, was_style, will_style) ==
    IF self \in was_style
    THEN IF self \in will_style THEN "Sandwitched" ELSE "Last"
    ELSE IF self \in will_style THEN "First" ELSE "Single"

\* the style set of the i-th character of a line; empty outside the line
\* (was_style starts as HashSet::new(), peek() is None at the end)
StyleAt(line, i) == IF i \in 1..Len(line) THEN line[i].style ELSE {}

\* the styles of the i-th span: the character's, and in the foreground the
\* cursor's when it is on the character
Shown(line, i, cursor, background) ==
    line[i].style
        \cup (IF ~background /\ IsSome(cursor) /\ cursor[1] = i - 1 THEN {"Cursor"} ELSE {})

Span(line, i, cursor, background) ==
    [character |-> line[i].value,
     position |-> [style \in Shown(line, i, cursor, background) |->
                      positioned(style, StyleAt(line, i - 1), StyleAt(line, i + 1))]]

\* the span added for a cursor at or past the end of the line
CursorSpan == [character |-> " ", position |-> [style \in {"Cursor"} |-> "Single"]]

\* impl Component for Line: view; cursor: None or Some(index)
Line_view(line, cursor, background) ==
    [i \in 1..Len(line) |-> Span(line, i, cursor, background)]
        \o (IF IsSome(cursor) /\ cursor[1] >= Len(line) /\ ~background
            THEN <<CursorSpan>> ELSE <<>>)

\* lines of characters with any style sets, as LineProps.line may hold
AnyStyled(n) ==
    UNION {[1..k -> {Character("a", style, 0) : style \in SUBSET TextStyles}] : k \in 0..n}

\* the command prompt about to be rendered: a line of any styles
InitView ==
    /\ command \in AnyStyled(MaxSpans)
    /\ lines = <<<<>>>>
    /\ cursor_position = <<0, 0>>
    /\ mode = "Command"
    /\ budget = 0
    /\ overflow_checks = TRUE
    /\ last = [type |-> "", ret |-> "none", spans |-> <<>>]
    /\ elements = <<>>
    /\ active_element = 0
    /\ md = <<>>

\* Model::view renders the prompt through Line, with its cursor or without
RenderLine ==
    \E background \in BOOLEAN, cursor \in {None, Some(cursor_position[1])} :
        /\ last.type = ""
        /\ last' = [type |-> "view", ret |-> "true",
                    spans |-> Line_view(command, cursor, background)]
        /\ UNCHANGED <<documentVars, modelVars, overflow_checks, budget, md>>

\* a line of any styles, rendered once
SpecView == InitView /\ [][RenderLine]_vars

(***************************************************************************)
(* Ingestion (trait Markdown): a Document is built from the events of the  *)
(* markdown parser.  Each parse_from_md wraps the iterator it is given in  *)
(* a Peekable of its own; an event one of them has peeked and not taken is *)
(* lost when that Peekable is dropped.                                     *)
(***************************************************************************)
Event(kind, tag, text) == [kind |-> kind, tag |-> tag, text |-> text]
StartOf(tag) == Event("Start", tag, <<>>)
EndOf(tag) == Event("End", tag, <<>>)
TextOf(text) == Event("Text", "", text)
Rule == Event("Rule", "", <<>>)

\* cells.entry(c).or_default().text.extend(text.graphemes(true).map(String::from))
Extended(cells, c, text) ==
    IF c \in DOMAIN cells THEN [cells EXCEPT ![c].text = @ \o text]
    ELSE [k \in DOMAIN cells \cup {c} |->
             IF k = c THEN Paragraph(text, None) ELSE cells[k]]

\* faulty variant of TableEvent: a row start does not reset the column
TableEvent_NoReset(table, e) ==
    CASE e.kind = "End" /\ e.tag = "TableCell" -> [table EXCEPT !.width = @ + 1]
      [] e.kind = "End" /\ e.tag \in {"TableRow", "TableHead"} ->
            [table EXCEPT !.height = @ + 1]
      [] e.kind = "Text" ->
            [table EXCEPT !.cells = Extended(@, <<table.width, table.height>>, e.text)]
      [] OTHER -> table

\* the match of Table::parse_from_md on one event
TableEvent(table, e) ==
    CASE e.kind = "Start" /\ e.tag = "TableRow" -> [table EXCEPT !.width = 0]
      [] e.kind = "End" /\ e.tag = "TableCell" -> [table EXCEPT !.width = @ + 1]
      [] e.kind = "End" /\ e.tag \in {"TableRow", "TableHead"} ->
            [table EXCEPT !.height = @ + 1]
      [] e.kind = "Text" ->
            [table EXCEPT !.cells = Extended(@, <<table.width, table.height>>, e.text)]
      [] OTHER -> table

\* what a parse_from_md leaves: the value, the events not consumed, and
\* whether it panicked (md.next().unwrap() at the end of the events)
MResult(value, events, ret) == [value |-> value, md |-> events, ret |-> ret]

\* the loop of Table::parse_from_md
RECURSIVE TableLoop(_, _)
TableLoop(table, events) ==
    IF events = <<>> THEN MResult(table, events, "panic")
    ELSE IF Head(events) = EndOf("Table") THEN MResult(table, Tail(events), "true")
    ELSE TableLoop(TableEvent(table, Head(events)), Tail(events))

\* impl Markdown for Table
Table_parse_from_md(events) == TableLoop(Table(<<>>, None, 0, 0), events)

\* Some(Element::Table(table)) of a parsed table
TableElement(r) == MResult(IF IsAbort(r.ret) THEN None ELSE Some(r.value), r.md, r.ret)

\* faulty variant of Element_parse_from_md: the event after a table is peeked
\* and lost
Element_parse_from_md_PeeksAhead(events) ==
    IF events = <<>> THEN MResult(None, events, "true")
    ELSE IF Head(events) = StartOf("Table")
         THEN [TableElement(Table_parse_from_md(events)) EXCEPT
                  !.md = IF @ = <<>> THEN @ ELSE Tail(@)]
    ELSE MResult(None, Tail(events), "true")

\* impl Markdown for Option<Element>: a table when the next event starts one
\* (the Table takes that event itself); otherwise None, and the peeked event
\* goes with the Peekable
Element_parse_from_md(events) ==
    IF events = <<>> THEN MResult(None, events, "true")
    ELSE IF Head(events) = StartOf("Table")
         THEN TableElement(Table_parse_from_md(events))
    ELSE MResult(None, Tail(events), "true")

\* one turn of the loop of Document::parse_from_md; last keeps the stream the
\* ingestion started from
ParseElement ==
    \E r \in {Element_parse_from_md(md)} :
       /\ ~Aborted
       /\ md # <<>>
       /\ elements' = IF IsAbort(r.ret) THEN <<>>
                      ELSE IF IsSome(r.value) THEN Append(elements, r.value[1])
                      ELSE elements
       /\ md' = IF IsAbort(r.ret) THEN <<>> ELSE r.md
       /\ last' = [type |-> "parse_from_md", ret |-> r.ret, element |-> r.value,
                   stream |-> last.stream]
       /\ UNCHANGED <<active_element, modelVars, overflow_checks, budget>>

\* the events of a cell, of a row and of a table, as the parser sends them
CellEvents(texts) ==
    <<StartOf("TableCell")>> \o [i \in 1..Len(texts) |-> TextOf(texts[i])]
        \o <<EndOf("TableCell")>>

RECURSIVE RowEvents(_)
RowEvents(row) == IF row = <<>> THEN <<>> ELSE CellEvents(Head(row)) \o RowEvents(Tail(row))

RECURSIVE BodyEvents(_)
BodyEvents(rows) ==
    IF rows = <<>> THEN <<>>
    ELSE <<StartOf("TableRow")>> \o RowEvents(Head(rows)) \o <<EndOf("TableRow")>>
             \o BodyEvents(Tail(rows))

TableEvents(rows) ==
    <<StartOf("Table"), StartOf("TableHead")>> \o RowEvents(rows[1])
        \o <<EndOf("TableHead")>> \o BodyEvents(Tail(rows)) \o <<EndOf("Table")>>

\* a cell holds no text event, one, or two
CellContents == {<<>>, <<<<"a", "hao">>>>, <<<<"a", "hao">>, <<"hao">>>>}
RowShapes == UNION {[1..n -> CellContents] : n \in 1..2}
TableShapes == UNION {[1..n -> RowShapes] : n \in 1..2}

\* the blocks of a stream: a table, or events that belong to no table
Blocks ==
    {TableEvents(rows) : rows \in TableShapes}
    \cup {<<Rule>>, <<StartOf("Paragraph"), TextOf(<<"a">>), EndOf("Paragraph")>>}

\* a stream that ends inside a table
Truncated == <<StartOf("Table"), StartOf("TableHead"), EndOf("TableHead")>>

Streams ==
    {<<>>, Truncated} \cup Blocks \cup {b \o c : b \in Blocks, c \in Blocks}

\* Document::parse_from_md is about to run on a stream of events
InitIngest ==
    /\ md \in Streams
    /\ elements = <<>>
    /\ active_element = 0
    /\ last = [type |-> "", ret |-> "none", element |-> None, stream |-> md]
    /\ lines = <<>>
    /\ cursor_position = <<0, 0>>
    /\ mode = "Normal"
    /\ command = <<>>
    /\ budget = 0
    /\ overflow_checks = TRUE

\* the ingestion of one stream
SpecIngest == InitIngest /\ [][ParseElement]_vars

(***************************************************************************)
(* Vocabulary of the properties.                                           *)
(***************************************************************************)
ElementIds == 1..Len(elements)

\* the element the Document forwards to, its active cell and that cell's text
ActiveTable == elements[active_element + 1]
Focused ==
    /\ ~Aborted
    /\ active_element < Len(elements)
    /\ IsSome(ActiveTable.active_cell)
    /\ ActiveTable.active_cell[1] \in Cells(ActiveTable)
ActiveCoord == ActiveTable.active_cell[1]
ActiveCell == ActiveTable.cells[ActiveCoord]

\* the coordinate next to c in a direction, as plain integer arithmetic
Toward(c, direction) ==
    CASE direction = "Up" -> <<c[1], c[2] - 1>>
      [] direction = "Left" -> <<c[1] - 1, c[2]>>
      [] direction = "Down" -> <<c[1], c[2] + 1>>
      [] direction = "Right" -> <<c[1] + 1, c[2]>>

SingleWidth(text) == \A i \in 1..Len(text) : width(text[i]) = 1

(***************************************************************************)
(* C1: every Paragraph whose cursor is set has 0 <= cursor <= number of    *)
(* graphemes, after any sequence of commands.                              *)
(***************************************************************************)
C1_CursorWithinText ==
    \A e \in ElementIds : \A c \in Cells(elements[e]) :
        LET p == elements[e].cells[c] IN
        IsSome(p.cursor) => 0 <= p.cursor[1] /\ p.cursor[1] <= Len(p.text)

(***************************************************************************)
(* C2: if a Table's active_cell is Some(c), a cell exists at c, its cursor *)
(* is set, and every other cell of the table has no cursor.                *)
(***************************************************************************)
C2_ActiveCellFocused ==
    \A e \in ElementIds :
        LET t == elements[e] IN
        IsSome(t.active_cell) =>
            /\ t.active_cell[1] \in Cells(t)
            /\ IsSome(t.cells[t.active_cell[1]].cursor)
            /\ \A c \in Cells(t) \ {t.active_cell[1]} : t.cells[c].cursor = None

(***************************************************************************)
(* C3: no command other than an Insert containing a line break ends in a   *)
(* hard failure; every other command answers true or false.                *)
(***************************************************************************)
C3_NoHardFailure ==
    IsAbort(last.ret) => last.type = "Insert" /\ last.pret = "todo"

(***************************************************************************)
(* C4: a directional command that the active cell does not handle, at an   *)
(* edge where no neighbor cell exists, makes the Table answer false and    *)
(* leaves the Table as it was.                                             *)
(***************************************************************************)
AtEdge(d) ==
    /\ Focused
    /\ Paragraph_command(ActiveCell, d, overflow_checks).ret = "false"
    /\ Toward(ActiveCoord, d.type) \notin Cells(ActiveTable)

C4_EdgeNotHandled ==
    [][\A d \in {Up, Left, Down, Right} :
          last'.type = d.type /\ AtEdge(d) /\ Submit(d) =>
              /\ last'.tret = "false"
              /\ Table_command(ActiveTable, d, overflow_checks).t = ActiveTable]_vars

(***************************************************************************)
(* C5: Right with the cursor at end-of-text (cursor = length) and a cell   *)
(* to the right makes that cell active with cursor 0 and clears the old    *)
(* cursor; Left with cursor 0 and a cell to the left makes that cell       *)
(* active with its cursor at the right end (its length).                   *)
(***************************************************************************)
MovedTo(target, index) ==
    /\ ~IsAbort(last'.ret)
    /\ last'.tret = "true"
    /\ elements'[active_element + 1].active_cell = Some(target)
    /\ elements'[active_element + 1].cells[target].cursor = Some(index)
    /\ elements'[active_element + 1].cells[ActiveCoord].cursor = None

C5_CrossCellHorizontal ==
    [][/\ ( /\ last'.type = "Right"
            /\ Focused
            /\ ActiveCell.cursor = Some(Len(ActiveCell.text))
            /\ Toward(ActiveCoord, "Right") \in Cells(ActiveTable)
            /\ Submit(Right) )
          => MovedTo(Toward(ActiveCoord, "Right"), 0)
       /\ ( /\ last'.type = "Left"
            /\ Focused
            /\ ActiveCell.cursor = Some(0)
            /\ Toward(ActiveCoord, "Left") \in Cells(ActiveTable)
            /\ Submit(Left) )
          => MovedTo(Toward(ActiveCoord, "Left"),
                     Len(ActiveTable.cells[Toward(ActiveCoord, "Left")].text))]_vars

(***************************************************************************)
(* Vertical motion in a column of two cells: (0, 0) above (0, 1).          *)
(***************************************************************************)
Upper == <<0, 0>>
Lower == <<0, 1>>

\* the active cell is the upper cell of a column, with its cursor set
InUpperCell ==
    /\ Focused
    /\ ActiveCoord = Upper
    /\ Lower \in Cells(ActiveTable)
    /\ IsSome(ActiveCell.cursor)

\* Down and then Up, applied to the table of the current state
DownThenUp ==
    Table_command(Table_command(ActiveTable, Down, overflow_checks).t, Up, overflow_checks)

\* Down then Up ended in the upper cell with the cursor at the index
BackInUpperCellAt(index) ==
    /\ DownThenUp.ret = "true"
    /\ DownThenUp.t.active_cell = Some(Upper)
    /\ DownThenUp.t.cells[Upper].cursor = Some(index)
    /\ DownThenUp.t.cells[Lower].cursor = None

SingleWidthColumn ==
    /\ InUpperCell
    /\ SingleWidth(ActiveTable.cells[Upper].text)
    /\ SingleWidth(ActiveTable.cells[Lower].text)
    /\ ActiveCell.cursor[1] >= 0

(***************************************************************************)
(* C6 as stated: with two vertically adjacent cells of single-width        *)
(* graphemes and the cursor at any index i of the upper cell, Down then    *)
(* Up returns to the upper cell with the cursor at exactly i.              *)
(***************************************************************************)
C6_DownUpRestoresIndex ==
    (SingleWidthColumn /\ ActiveCell.cursor[1] <= Len(ActiveCell.text))
        => BackInUpperCellAt(ActiveCell.cursor[1])

(***************************************************************************)
(* C6 amended: with two vertically adjacent cells of single-width          *)
(* graphemes and the cursor at index i of the upper cell, Down then Up     *)
(* returns to the upper cell with the cursor at the least of i, the upper  *)
(* cell's length and the lower cell's length: i is restored exactly when   *)
(* the lower cell has at least i graphemes.                                *)
(***************************************************************************)
C6_DownUpRestoresClampedIndex ==
    SingleWidthColumn
        => BackInUpperCellAt(Min(Min(ActiveCell.cursor[1], Len(ActiveCell.text)),
                                 Len(ActiveTable.cells[Lower].text)))

\* Up has brought the cursor back into a longer upper cell, at the length of
\* the shorter lower cell
C6_Witness ==
    /\ SingleWidthColumn
    /\ last.type = "Up"
    /\ last.tret = "true"
    /\ Len(ActiveTable.cells[Lower].text) < Len(ActiveCell.text)
    /\ ActiveCell.cursor = Some(Len(ActiveTable.cells[Lower].text))

(***************************************************************************)
(* Width-weighted columns, stated from the text of a cell alone.           *)
(***************************************************************************)
RECURSIVE PrefixColumn(_, _)
\* the display column in front of index j: capped widths of text[1..j]
PrefixColumn(text, j) ==
    IF j <= 0 THEN 0 ELSE PrefixColumn(text, j - 1) + Min(width(text[j]), 2)

\* the column a cursor carries out of its cell
CarriedColumn(p) == PrefixColumn(p.text, Min(p.cursor[1], Len(p.text)))

\* the walk stops at index j: the text is exhausted or the remaining column is
\* less than the width of the next grapheme
StopsWhenShort(text, column, j) ==
    \/ j = Len(text)
    \/ column - PrefixColumn(text, j) < Min(width(text[j + 1]), 2)

\* the walk also stops at index j when no column remains
StopsWhenSpent(text, column, j) ==
    \/ StopsWhenShort(text, column, j)
    \/ column - PrefixColumn(text, j) <= 0

\* the index where a walk that only stops when short ends
IndexWhenShort(text, column) ==
    CHOOSE j \in 0..Len(text) :
        /\ StopsWhenShort(text, column, j)
        /\ \A k \in 0..(j - 1) : ~StopsWhenShort(text, column, k)

\* the index where a walk that also stops when spent ends
IndexWhenSpent(text, column) ==
    CHOOSE j \in 0..Len(text) :
        /\ StopsWhenSpent(text, column, j)
        /\ \A k \in 0..(j - 1) : ~StopsWhenSpent(text, column, k)

\* this step is Up or Down out of a cell whose neighbor in that direction exists
VerticalMove(d) ==
    /\ last'.type = d.type
    /\ Focused
    /\ IsSome(ActiveCell.cursor)
    /\ ActiveCell.cursor[1] >= 0
    /\ Toward(ActiveCoord, d.type) \in Cells(ActiveTable)
    /\ Submit(d)

\* the step made the neighbor the active cell, with its cursor at the index
LandedAt(d, index) ==
    /\ last'.tret = "true"
    /\ elements'[active_element + 1].active_cell = Some(Toward(ActiveCoord, d.type))
    /\ elements'[active_element + 1].cells[Toward(ActiveCoord, d.type)].cursor = Some(index)

WideThenNarrow(text) == Len(text) = 2 /\ width(text[1]) = 2 /\ width(text[2]) = 1

\* the example: out of [width 2, width 1] at index 1 into single-width text of
\* two graphemes or more lands at 2, and out of that text at 2 lands back at 1
ExampleLanding(d) ==
    LET from == ActiveCell
        to == ActiveTable.cells[Toward(ActiveCoord, d.type)]
    IN /\ ( /\ WideThenNarrow(from.text) /\ from.cursor = Some(1)
            /\ SingleWidth(to.text) /\ Len(to.text) >= 2 )
          => LandedAt(d, 2)
       /\ ( /\ SingleWidth(from.text) /\ Len(from.text) >= 2 /\ from.cursor = Some(2)
            /\ WideThenNarrow(to.text) )
          => LandedAt(d, 1)

Paragraphs ==
    {elements[e].cells[c] : <<e, c>> \in
        {ec \in ElementIds \X UNION {Cells(elements[e]) : e \in ElementIds} :
            ec[2] \in Cells(elements[ec[1]])}}

(***************************************************************************)
(* C8: Paragraph Right with cursor Some(i), i < length, sets the cursor to *)
(* i + 1 and returns true; otherwise (i = length, or no cursor) it leaves  *)
(* the cursor alone and returns false.                                     *)
(***************************************************************************)
C8_ParagraphRight ==
    \A p \in Paragraphs :
        (IsSome(p.cursor) => 0 <= p.cursor[1] /\ p.cursor[1] <= Len(p.text)) =>
            Paragraph_command(p, Right, overflow_checks) =
                IF IsSome(p.cursor) /\ p.cursor[1] < Len(p.text)
                THEN PResult([p EXCEPT !.cursor = Some(p.cursor[1] + 1)], "true")
                ELSE PResult(p, "false")

(***************************************************************************)
(* C9: Paragraph CursorEnterH(from_right) always returns true and sets the *)
(* cursor to the length when from_right and to 0 otherwise, whatever the   *)
(* text and the previous cursor.                                           *)
(***************************************************************************)
C9_ParagraphEnterH ==
    \A p \in Paragraphs : \A from_right \in BOOLEAN :
        Paragraph_command(p, CursorEnterH(from_right), overflow_checks) =
            PResult([p EXCEPT !.cursor = Some(IF from_right THEN Len(p.text) ELSE 0)],
                    "true")

(***************************************************************************)
(* Delete(Left) received by the active cell of a Table.                    *)
(***************************************************************************)
\* the text without its grapheme in front of index i
Without(text, i) ==
    [j \in 1..(Len(text) - 1) |-> IF j < i THEN text[j] ELSE text[j + 1]]

DeleteLeft ==
    /\ last'.type = "Delete"
    /\ Focused
    /\ IsSome(ActiveCell.cursor)
    /\ Submit(Delete("Left"))

\* the cell answered true and holds the text without grapheme i - 1, cursor i - 1
Removed(i) ==
    /\ last'.pret = "true"
    /\ elements'[active_element + 1].cells[ActiveCoord] =
          Paragraph(Without(ActiveCell.text, i), Some(i - 1))

(***************************************************************************)
(* C10 as stated: Paragraph Delete(Left) with cursor Some(0) returns true  *)
(* and leaves text and cursor unchanged; with cursor Some(i), i > 0, it    *)
(* removes the grapheme at index i - 1, sets the cursor to i - 1 and       *)
(* returns true.                                                           *)
(***************************************************************************)
C10_DeleteLeftHandled ==
    [][DeleteLeft =>
          IF ActiveCell.cursor = Some(0)
          THEN last'.pret = "true" /\ elements' = elements
          ELSE Removed(ActiveCell.cursor[1])]_vars

(***************************************************************************)
(* C10 amended: Paragraph Delete(Left) with cursor Some(0) returns false   *)
(* and leaves text and cursor unchanged, and it is the enclosing Table     *)
(* that answers true; with cursor Some(i), 0 < i <= length, it removes the *)
(* grapheme at index i - 1, sets the cursor to i - 1 and returns true;     *)
(* with a cursor beyond the length the call panics.                        *)
(***************************************************************************)
C10_DeleteLeftSwallowedByTable ==
    [][DeleteLeft =>
          IF ActiveCell.cursor = Some(0)
          THEN last'.pret = "false" /\ last'.tret = "true" /\ elements' = elements
          ELSE IF 0 < ActiveCell.cursor[1] /\ ActiveCell.cursor[1] <= Len(ActiveCell.text)
               THEN Removed(ActiveCell.cursor[1])
               ELSE last'.ret = "panic"]_vars

\* Delete(Left) was just swallowed with the cursor in front of the text
C10_Witness ==
    /\ Focused
    /\ last.type = "Delete"
    /\ last.pret = "false"
    /\ last.tret = "true"
    /\ ActiveCell.cursor = Some(0)
    /\ Len(ActiveCell.text) > 0

(***************************************************************************)
(* Insert followed by as many Delete(Left) as graphemes were inserted.     *)
(***************************************************************************)
\* text with chars put in front of index i
Spliced(text, i, chars) ==
    [j \in 1..(Len(text) + Len(chars)) |->
        IF j <= i THEN text[j]
        ELSE IF j <= i + Len(chars) THEN chars[j - i]
        ELSE text[j - Len(chars)]]

RECURSIVE DeleteLeftTimes(_, _, _)
\* n times Delete(Left), starting from the answer r of the previous command
DeleteLeftTimes(r, n, oc) ==
    IF n = 0 \/ r.ret # "true" THEN r
    ELSE DeleteLeftTimes(Paragraph_command(r.p, Delete("Left"), oc), n - 1, oc)

PlainInputs == {chars \in InsertInputs : ~Contains(chars, LineBreak)}

(***************************************************************************)
(* C11: for a Paragraph with cursor Some(i) and graphemes chars without a  *)
(* line break, Insert(chars) gives text[0..i] ++ chars ++ text[i..] with   *)
(* the cursor at i + len(chars), and len(chars) Delete(Left) commands then *)
(* restore the original text and the cursor i.                             *)
(***************************************************************************)
C11_InsertDeleteRoundTrip ==
    \A p \in Paragraphs : \A chars \in PlainInputs :
        IsSome(p.cursor) =>
            /\ Paragraph_command(p, Insert(chars), overflow_checks).ret = "true"
            /\ Paragraph_command(p, Insert(chars), overflow_checks).p =
                  Paragraph(Spliced(p.text, p.cursor[1], chars),
                            Some(p.cursor[1] + Len(chars)))
            /\ DeleteLeftTimes(Paragraph_command(p, Insert(chars), overflow_checks),
                               Len(chars), overflow_checks) = PResult(p, "true")

(***************************************************************************)
(* C12: Insert or Delete directed at a Paragraph whose cursor is None      *)
(* returns false and leaves the Paragraph's text and cursor unchanged.     *)
(***************************************************************************)
C12_EditWithoutCursorRejected ==
    [][/\ \A p \in Paragraphs :
             p.cursor = None =>
                /\ \A chars \in InsertInputs :
                      Paragraph_command(p, Insert(chars), overflow_checks)
                          = PResult(p, "false")
                /\ \A motion \in Motions :
                      Paragraph_command(p, Delete(motion), overflow_checks)
                          = PResult(p, "false")
       /\ ( /\ last'.type \in {"Insert", "Delete"}
            /\ Focused
            /\ ActiveCell.cursor = None )
          => /\ last'.pret = "false"
             /\ ~IsAbort(last'.ret) => elements' = elements]_vars

\* Delete(Left) has just been rejected by an active cell without a cursor
C12_Witness ==
    /\ Focused
    /\ ActiveCell.cursor = None
    /\ last.type = "Delete"
    /\ last.pret = "false"
    /\ last.tret = "true"

(***************************************************************************)
(* Grapheme elements across one step.                                      *)
(***************************************************************************)
\* the cell at coordinate c of element e after the step
CellAfter(e, c) == elements'[e].cells[c]

\* the step reached the active cell, which answered true to a command of type ty
HandledByCell(ty) ==
    /\ last'.type = ty
    /\ last'.pret = "true"
    /\ ~IsAbort(last'.ret)
    /\ Focused

\* the elements of text after the step are those of before, whole and in order,
\* but for one element removed or the elements of one input put in between
WholeElementsKept(before, after, ty) ==
    CASE ty = "Delete" ->
            \E k \in 1..Len(before) : after = Without(before, k)
      [] ty = "Insert" ->
            \E chars \in InsertInputs, k \in 0..Len(before) :
                after = Spliced(before, k, chars)
      [] OTHER -> after = before

(***************************************************************************)
(* C13: no command changes the content of a grapheme element: a handled    *)
(* Left or Right moves the cursor by exactly one element and leaves the    *)
(* text alone, a handled Delete(Left) removes exactly one whole element,   *)
(* a handled Insert puts whole elements between the existing ones, and     *)
(* nothing else changes any text.                                          *)
(***************************************************************************)
C13_GraphemesAtomic ==
    [][~IsAbort(last'.ret) =>
          /\ \A e \in ElementIds : \A c \in Cells(elements[e]) :
                IF /\ Focused /\ e = active_element + 1 /\ c = ActiveCoord
                   /\ last'.pret = "true"
                THEN WholeElementsKept(elements[e].cells[c].text,
                                       CellAfter(e, c).text, last'.type)
                ELSE CellAfter(e, c).text = elements[e].cells[c].text
          /\ HandledByCell("Left") =>
                CellAfter(active_element + 1, ActiveCoord).cursor
                    = Some(ActiveCell.cursor[1] - 1)
          /\ HandledByCell("Right") =>
                CellAfter(active_element + 1, ActiveCoord).cursor
                    = Some(ActiveCell.cursor[1] + 1)
          /\ HandledByCell("Delete") =>
                Len(CellAfter(active_element + 1, ActiveCoord).text)
                    = Len(ActiveCell.text) - 1]_vars

\* Right has just moved the cursor over a wide grapheme in one step
C13_Witness ==
    /\ Focused
    /\ last.type = "Right"
    /\ last.pret = "true"
    /\ ActiveCell.text = <<"hao", "a">>
    /\ ActiveCell.cursor = Some(1)

(***************************************************************************)
(* C14: an Insert whose graphemes contain a line break, sent to a focused  *)
(* table cell, ends in the unimplemented-operation outcome, which is not   *)
(* the answer false, and the cell's text and cursor are as before: nothing *)
(* of the input is inserted.                                               *)
(***************************************************************************)
C14_LineBreakUnimplemented ==
    [][\A chars \in InsertInputs \ PlainInputs :
          ( /\ last'.type = "Insert"
            /\ Focused
            /\ Submit(Insert(chars)) )
          => /\ last'.ret = "todo"
             /\ last'.tret = "todo"
             /\ IsSome(ActiveCell.cursor) => last'.pret = "todo"
             /\ Paragraph_command(ActiveCell, Insert(chars), overflow_checks).p
                   = ActiveCell]_vars

\* the cell has just answered an Insert with the unimplemented-operation outcome
C14_Witness ==
    /\ last.type = "Insert"
    /\ last.pret = "todo"
    /\ last.ret = "todo"

(***************************************************************************)
(* Every command of the vocabulary, as the sessions submit them.           *)
(***************************************************************************)
AllCommands ==
    {Up, Left, Down, Right, CursorLeave}
    \cup {CursorEnterH(from_right) : from_right \in BOOLEAN}
    \cup {CursorEnterV(column, from_bottom) :
             column \in 0..MaxColumn, from_bottom \in BOOLEAN}
    \cup {Insert(chars) : chars \in InsertInputs}
    \cup {Delete(motion) : motion \in Motions}

\* CursorEnterH(false) or CursorEnterV(_, false)
EntersFromStart(cmd) == cmd.type \in {"CursorEnterH", "CursorEnterV"} /\ ~cmd.flag

(***************************************************************************)
(* C15: a Table without active cell answers CursorEnterH(false) and        *)
(* CursorEnterV(_, false) by making (0,0) the active cell, forwarding the  *)
(* command to that cell and returning true; it answers every other command *)
(* with false and stays as it was.                                         *)
(***************************************************************************)
C15_UnfocusedTable ==
    \A e \in ElementIds : \A cmd \in AllCommands :
        elements[e].active_cell = None =>
            IF EntersFromStart(cmd)
            THEN /\ Table_command(elements[e], cmd, overflow_checks).ret = "true"
                 /\ Table_command(elements[e], cmd, overflow_checks).t =
                       [elements[e] EXCEPT
                           !.active_cell = Some(<<0, 0>>),
                           !.cells[<<0, 0>>] =
                               Paragraph_command(@, cmd, overflow_checks).p]
            ELSE /\ Table_command(elements[e], cmd, overflow_checks).ret = "false"
                 /\ Table_command(elements[e], cmd, overflow_checks).t = elements[e]

(***************************************************************************)
(* C16: Document::command forwards the command to its active element, and  *)
(* when that element handled it the Document returns true and leaves       *)
(* active_element unchanged.                                               *)
(***************************************************************************)
C16_HandledByElement ==
    [][last'.tret = "true" =>
          /\ last'.ret = "true"
          /\ active_element' = active_element]_vars

(***************************************************************************)
(* Motion between the elements of the Document.                            *)
(***************************************************************************)
\* the index of the element next to the active one in the direction of a
\* command type: the previous one for Up and Left, the next for Down and Right
NeighborElement(ty) ==
    IF ty \in {"Up", "Left"} THEN active_element - 1 ELSE active_element + 1

\* this step is a directional command that the active element did not handle
UnhandledByElement(ty) ==
    /\ last'.type = ty
    /\ last'.tret = "false"
    /\ active_element < Len(elements)

HasNeighborElement(ty) ==
    NeighborElement(ty) >= 0 /\ NeighborElement(ty) < Len(elements)

(***************************************************************************)
(* C17: when the active element leaves a directional command unhandled and *)
(* an element exists in that direction, the Document leaves the current    *)
(* element, makes the neighbor the active element, sends it a CursorEnter  *)
(* command and returns true: CursorEnterH with the opposite-side flag for  *)
(* Left and Right, CursorEnterV for Up and Down.                           *)
(***************************************************************************)
C17_ElementToElement ==
    [][\A ty \in Directional :
          (UnhandledByElement(ty) /\ HasNeighborElement(ty)) =>
              /\ last'.ret = "true"
              /\ active_element' = NeighborElement(ty)
              /\ IsSome(last'.enter)
              /\ ty \in {"Left", "Right"} =>
                    last'.enter = Some(CursorEnterH(ty = "Left"))
              /\ ty \in {"Up", "Down"} =>
                    /\ last'.enter[1].type = "CursorEnterV"
                    /\ last'.enter[1].flag = (ty = "Up")]_vars

(***************************************************************************)
(* C18: when the active element leaves a directional command unhandled and *)
(* the Document is at its first element (Up, Left) or its last element     *)
(* (Down, Right), nothing changes: active_element, every active_cell,      *)
(* every cursor and every text are as before.                              *)
(***************************************************************************)
C18_AbsorbedAtEnd ==
    [][\A ty \in Directional :
          (UnhandledByElement(ty) /\ ~HasNeighborElement(ty)) =>
              /\ ~IsAbort(last'.ret)
              /\ elements' = elements
              /\ active_element' = active_element]_vars

\* Up has just been absorbed at the first element, Down at the last
C18_Witness ==
    /\ Len(elements) = 2
    /\ last.tret = "false"
    /\ last.enter = None
    /\ \/ last.type = "Up" /\ active_element = 0
       \/ last.type = "Down" /\ active_element = 1

(***************************************************************************)
(* C19: a Table with an active cell answers false to every non-directional *)
(* command that its active cell did not handle (Delete(Left), which the    *)
(* Table swallows, is left aside here).                                    *)
(***************************************************************************)
C19_UnhandledNotDirectional ==
    [][\A cmd \in AllCommands :
          ( /\ last'.type = cmd.type
            /\ cmd.type \notin Directional
            /\ cmd # Delete("Left")
            /\ Focused
            /\ Submit(cmd)
            /\ last'.pret = "false" )
          => last'.tret = "false"]_vars

(***************************************************************************)
(* C20: after any sequence of commands on a non-empty Document,            *)
(* active_element < elements.len().                                        *)
(***************************************************************************)
C20_ActiveElementValid ==
    Len(elements) > 0 => (0 <= active_element /\ active_element < Len(elements))

\* the Document has moved from its first element into its last one
C20_Witness ==
    /\ Len(elements) = 2
    /\ active_element = 1
    /\ last.type \in {"Down", "Right"}
    /\ last.enter = Some(CursorEnterH(FALSE))
    /\ ~Aborted

(***************************************************************************)
(* Vocabulary of the editor's properties.                                  *)
(***************************************************************************)
LineBreaks(text) == Cardinality({i \in 1..Len(text) : text[i] = LineBreak})

TextsOf(ls) == [i \in 1..Len(ls) |-> to_string(ls[i])]

\* the texts of the lines joined by line breaks
RECURSIVE JoinedTexts(_)
JoinedTexts(texts) ==
    IF texts = <<>> THEN <<>>
    ELSE IF Len(texts) = 1 THEN texts[1]
    ELSE texts[1] \o <<LineBreak>> \o JoinedTexts(Tail(texts))

\* this step handles a Write on the line under the cursor
WroteLine == last'.type = "Write" /\ ~IsAbort(last'.ret) /\ mode # "Command"

\* where that Write inserts: the row, the clamped index, and the index in
\* the joined text
WriteRow == cursor_position[2]
WritePosition == Min(cursor_position[1], Len(lines[WriteRow + 1]))
WriteIndex == Len(JoinedTexts(TextsOf(SubSeq(lines, 1, WriteRow + 1))))
                  - Len(lines[WriteRow + 1]) + WritePosition

(***************************************************************************)
(* C21: an insert of a text with k line breaks at a position in            *)
(* [0, length] produces exactly k new lines, placed directly after the     *)
(* current line in order; the first segment goes in at the position, the   *)
(* content after the position ends the last new line (or stays in the      *)
(* current line when k = 0), and the lines joined by line breaks are the   *)
(* original text with the inserted text spliced in at the insertion point. *)
(***************************************************************************)
C21_InsertSplices ==
    [][WroteLine =>
          LET k == LineBreaks(last'.msg.text)
              line == to_string(lines[WriteRow + 1])
              after == TextsOf(lines')
          IN /\ Len(lines') = Len(lines) + k
             /\ \A i \in 1..Len(after) : LineBreaks(after[i]) = 0
             /\ \A i \in 1..WriteRow : after[i] = to_string(lines[i])
             /\ \A i \in (WriteRow + 2)..Len(lines) : after[i + k] = to_string(lines[i])
             /\ JoinedTexts(SubSeq(after, WriteRow + 1, WriteRow + 1 + k))
                   = Spliced(line, WritePosition, last'.msg.text)
             /\ JoinedTexts(after)
                   = Spliced(JoinedTexts(TextsOf(lines)), WriteIndex, last'.msg.text)]_vars

\* a text of two line breaks has been written in front of the rest of a line
C21_Witness ==
    /\ last.type = "Write"
    /\ ~Aborted
    /\ LineBreaks(last.msg.text) = 2
    /\ Len(lines) >= 3
    /\ cursor_position[2] >= 2
    /\ Len(lines[cursor_position[2] + 1]) > cursor_position[1]

(***************************************************************************)
(* C22: after a text insertion at cursor (x, y) in insert mode the cursor  *)
(* is immediately after the inserted text: without a line break no new     *)
(* line is produced, x advances by the number of inserted graphemes and y  *)
(* is unchanged; with k > 0 line breaks the cursor is on line y + k at the *)
(* grapheme count of the text's last segment.                              *)
(***************************************************************************)
\* the graphemes after the last line break of a text
LastSegmentLen(text) ==
    Len(text) - Max(0, CHOOSE i \in 0..Len(text) :
                          /\ i > 0 => text[i] = LineBreak
                          /\ \A j \in (i + 1)..Len(text) : text[j] # LineBreak)

C22_CursorAfterInsertedText ==
    [][(WroteLine /\ mode = "Insert") =>
          IF LineBreaks(last'.msg.text) = 0
          THEN /\ Len(lines') = Len(lines)
               /\ cursor_position' =
                     <<cursor_position[1] + Len(last'.msg.text), cursor_position[2]>>
          ELSE cursor_position' =
                  <<LastSegmentLen(last'.msg.text),
                    cursor_position[2] + LineBreaks(last'.msg.text)>>]_vars

(***************************************************************************)
(* C23: after any sequence of inserts, every grapheme's stored byte offset *)
(* is what a full recomputation gives: the sum of the byte lengths of the  *)
(* graphemes before it in its own line.                                    *)
(***************************************************************************)
Recomputed(line) ==
    \A i \in 1..Len(line) : line[i].offset = ByteIndex(to_string(line), i)

C23_OffsetsMatchRecomputation ==
    /\ \A y \in 1..Len(lines) : Recomputed(lines[y])
    /\ Recomputed(command)

(***************************************************************************)
(* C24: after every Write, every grapheme's style set is exactly the set   *)
(* of styles that have an annotation range [start, end) with               *)
(* start <= offset < end, where offset is the grapheme's byte offset in    *)
(* its line plus the running line offset: the sum over the preceding lines *)
(* of (byte length + 1).                                                   *)
(***************************************************************************)
RECURSIVE RunningOffset(_, _)
RunningOffset(texts, y) ==
    IF y = 1 THEN 0 ELSE RunningOffset(texts, y - 1) + ByteSum(texts[y - 1]) + 1

Covering(highlighting, offset) ==
    {h.style : h \in {a \in highlighting : a.start <= offset /\ offset < a.end}}

C24_StylesFollowAnnotations ==
    (last.type = "Write" /\ ~Aborted) =>
        \A y \in 1..Len(lines) : \A i \in 1..Len(lines[y]) :
            lines[y][i].style =
                Covering(Highlighting(JoinedTexts(TextsOf(lines))),
                         ByteIndex(to_string(lines[y]), i)
                             + RunningOffset(TextsOf(lines), y))

(***************************************************************************)
(* C25: within a line, for every style S and every maximal run of          *)
(* consecutive graphemes carrying S: a run of length 1 is classified       *)
(* Single; in a longer run the first grapheme is First, the last one Last  *)
(* and every grapheme in between Sandwitched.                              *)
(***************************************************************************)
\* the characters a..b of the rendered line are a maximal run of style
MaximalRun(style, a, b) ==
    /\ \A i \in a..b : style \in command[i].style
    /\ style \notin StyleAt(command, a - 1)
    /\ style \notin StyleAt(command, b + 1)

C25_RunsClassified ==
    last.type = "view" =>
        \A style \in TextStyles : \A a \in 1..Len(command) : \A b \in a..Len(command) :
            MaximalRun(style, a, b) =>
                /\ a = b => last.spans[a].position[style] = "Single"
                /\ a < b =>
                      /\ last.spans[a].position[style] = "First"
                      /\ last.spans[b].position[style] = "Last"
                      /\ \A i \in (a + 1)..(b - 1) :
                            last.spans[i].position[style] = "Sandwitched"

\* a rendered line with a run of three and a run of one
C25_Witness ==
    /\ last.type = "view"
    /\ Len(command) = 3
    /\ MaximalRun("Bold", 1, 3)
    /\ MaximalRun("Code", 2, 2)
    /\ last.spans[2].position = [style \in {"Bold", "Code"} |->
                                    IF style = "Bold" THEN "Sandwitched" ELSE "Single"]

(***************************************************************************)
(* Vocabulary of the ingestion's properties: what a stream of events says, *)
(* read off the stream as a whole.                                         *)
(***************************************************************************)
IsRowEnd(e) == e = EndOf("TableRow") \/ e = EndOf("TableHead")
IsRowStart(e) == e = StartOf("TableRow") \/ e = StartOf("TableHead")

\* every table start is followed by a table end
Matched(stream) ==
    \A s \in 1..Len(stream) :
        stream[s] = StartOf("Table") =>
            \E e \in (s + 1)..Len(stream) : stream[e] = EndOf("Table")

\* the events inside each table of a matched stream, in stream order
RECURSIVE Segments(_)
Segments(stream) ==
    IF stream = <<>> THEN <<>>
    ELSE IF Head(stream) # StartOf("Table") THEN Segments(Tail(stream))
    ELSE LET e == CHOOSE i \in 2..Len(stream) :
                      /\ stream[i] = EndOf("Table")
                      /\ \A j \in 2..(i - 1) : stream[j] # EndOf("Table")
         IN <<SubSeq(stream, 2, e - 1)>> \o Segments(SubSeq(stream, e + 1, Len(stream)))

\* the row and the column open at the i-th event of a table's events ev
RowAt(ev, i) == Cardinality({j \in 1..(i - 1) : IsRowEnd(ev[j])})
RowStartBefore(ev, i) ==
    CHOOSE s \in 0..(i - 1) :
        /\ s > 0 => IsRowStart(ev[s])
        /\ \A j \in (s + 1)..(i - 1) : ~IsRowStart(ev[j])
ColumnAt(ev, i) ==
    Cardinality({j \in (RowStartBefore(ev, i) + 1)..(i - 1) : ev[j] = EndOf("TableCell")})

CoordinateAt(ev, i) == <<ColumnAt(ev, i), RowAt(ev, i)>>

Populated(ev) == {CoordinateAt(ev, i) : i \in {j \in 1..Len(ev) : ev[j].kind = "Text"}}

\* the texts that arrive for coordinate c among the first n events, in order
RECURSIVE Arrived(_, _, _)
Arrived(ev, c, n) ==
    IF n = 0 THEN <<>>
    ELSE Arrived(ev, c, n - 1)
             \o (IF ev[n].kind = "Text" /\ CoordinateAt(ev, n) = c THEN ev[n].text ELSE <<>>)

\* the number of cells of each row
CellCounts(ev) ==
    {ColumnAt(ev, i) : i \in {j \in 1..Len(ev) : IsRowEnd(ev[j])}}

(***************************************************************************)
(* C26: each text event of a table is appended, grapheme by grapheme, to   *)
(* the Paragraph at the open (column, row); a cell end increments the      *)
(* column, a row end (the header's included) the row, a row start resets   *)
(* the column; so when every row has the same number of cells, every       *)
(* populated (c, r) has c < width and r < height, with height the number   *)
(* of rows and width the cells per row; and active_cell is None.           *)
(***************************************************************************)
TableIngested == last.type = "parse_from_md" /\ ~Aborted /\ IsSome(last.element)

\* the events of the table just ingested
IngestedEvents == Segments(last.stream)[Len(elements)]

C26_TableIngestion ==
    TableIngested =>
        /\ DOMAIN last.element[1].cells = Populated(IngestedEvents)
        /\ \A c \in Populated(IngestedEvents) :
              last.element[1].cells[c]
                 = Paragraph(Arrived(IngestedEvents, c, Len(IngestedEvents)), None)
        /\ last.element[1].active_cell = None
        /\ Cardinality(CellCounts(IngestedEvents)) = 1 =>
              /\ last.element[1].height = RowAt(IngestedEvents, Len(IngestedEvents) + 1)
              /\ CellCounts(IngestedEvents) = {last.element[1].width}
              /\ \A c \in DOMAIN last.element[1].cells :
                    c[1] < last.element[1].width /\ c[2] < last.element[1].height

\* a table of two rows of two cells, one of them filled by two text events
C26_Witness ==
    /\ TableIngested
    /\ last.element[1].width = 2
    /\ last.element[1].height = 2
    /\ <<1, 1>> \in DOMAIN last.element[1].cells
    /\ last.element[1].cells[<<1, 1>>].text = <<"a", "hao", "hao">>
    /\ <<0, 1>> \notin DOMAIN last.element[1].cells

(***************************************************************************)
(* C27: for every finite stream in which each table start is followed by a *)
(* matching table end, Document::parse_from_md terminates and yields       *)
(* exactly one Table per table of the stream, in stream order, with        *)
(* active_element = 0; events outside the tables are ignored and no event  *)
(* of a table is lost.                                                     *)
(***************************************************************************)
\* the table that the events ev of one table describe
Described(ev) ==
    Table([c \in Populated(ev) |-> Paragraph(Arrived(ev, c, Len(ev)), None)],
          None, RowAt(ev, Len(ev) + 1), ColumnAt(ev, Len(ev) + 1))

Ingested == md = <<>> /\ ~Aborted

C27_DocumentIngestion ==
    /\ [](Matched(last.stream) => ~Aborted)
    /\ []((Ingested /\ Matched(last.stream)) =>
             /\ elements = [k \in 1..Len(Segments(last.stream)) |->
                               Described(Segments(last.stream)[k])]
             /\ active_element = 0)
    /\ [][Len(md') < Len(md)]_vars

\* a stream of two tables has been ingested to its end
C27_Witness ==
    /\ Ingested
    /\ last.type = "parse_from_md"
    /\ Len(elements) = 2
    /\ elements[1] # elements[2]

(***************************************************************************)
(* C28: after any sequence of messages processed by Model::update,         *)
(* cursor_position (x, y) satisfies y < lines.len() and                    *)
(* 0 <= x <= lines[y].len().                                               *)
(***************************************************************************)
C28_CursorWithinLines ==
    (~Aborted /\ last.type # "") =>
        /\ cursor_position[2] < Len(lines)
        /\ 0 <= cursor_position[1]
        /\ cursor_position[1] <= Len(lines[cursor_position[2] + 1])

(***************************************************************************)
(* C29: once focus has entered a Document, after any sequence of Up, Left, *)
(* Down, Right, Insert and Delete(Left) commands exactly one Paragraph of  *)
(* the whole Document has a cursor, and it is the active cell of the       *)
(* element at active_element.                                              *)
(***************************************************************************)
\* the cells that have a cursor, each with the index of its element
WithCursor ==
    {ec \in UNION {{<<e - 1, c>> : c \in Cells(elements[e])} : e \in ElementIds} :
        IsSome(elements[ec[1] + 1].cells[ec[2]].cursor)}

\* the session goes on and one cell, the active one, has the cursor
OneFocusedParagraph ==
    /\ ~Aborted
    /\ active_element < Len(elements)
    /\ IsSome(ActiveTable.active_cell)
    /\ WithCursor = {<<active_element, ActiveTable.active_cell[1]>>}

\* checked from the moment focus is inside a Document that has elements;
\* text with a line break, which no Paragraph accepts yet, is left aside
C29_OneFocusedParagraph ==
    [][(OneFocusedParagraph /\ last'.ret # "todo") => OneFocusedParagraph']_vars

(***************************************************************************)
(* C30.  For every Paragraph whose graphemes have capped width 0, 1 or 2   *)
(* and every cursor index i in 0..length, converting i to its normalized   *)
(* column and converting that column back on the same Paragraph gives i    *)
(* again; and set_normalized_cursor ends with a cursor in 0..length for    *)
(* every target column.                                                    *)
(***************************************************************************)
CursorInText == IsSome(ActiveCell.cursor) /\ ActiveCell.cursor[1] \in 0..Len(ActiveCell.text)

\* a step that converts the focused cell's index to its column and back
ConvertedBack == Focused /\ CursorInText /\ ReenterAtOwnColumn /\ Focused'

\* a step that has run set_normalized_cursor on the focused cell
ColumnSet == Focused /\ last'.type = "CursorEnterV" /\ Focused'

CursorInRange ==
    ColumnSet => /\ IsSome(ActiveCell'.cursor)
                 /\ ActiveCell'.cursor[1] \in 0..Len(ActiveCell'.text)

C30_RoundTripIsIdentity ==
    [][/\ ConvertedBack => ActiveCell'.cursor = ActiveCell.cursor
       /\ CursorInRange]_vars

\* the least index of p's text that lies at the column of p's cursor
LeastAtColumn(p) ==
    CHOOSE j \in 0..p.cursor[1] :
        /\ SumWidths(Take(p.text, j)) = SumWidths(Take(p.text, p.cursor[1]))
        /\ \A k \in 0..(j - 1) :
              SumWidths(Take(p.text, k)) # SumWidths(Take(p.text, p.cursor[1]))

\* C30 as amended: the conversion back gives the least index at the column
\* of i, which is i unless a zero-width grapheme stands just before i
C30_RoundTripIsLeastIndex ==
    [][/\ ConvertedBack =>
            /\ ActiveCell'.cursor = Some(LeastAtColumn(ActiveCell))
            /\ (ActiveCell.cursor[1] = 0
                \/ CappedWidth(ActiveCell.text[ActiveCell.cursor[1]]) # 0)
               => ActiveCell'.cursor = ActiveCell.cursor
       /\ CursorInRange]_vars

\* a column has been converted to an index that stands after a wide grapheme
\* and before a zero-width one
C30_Witness ==
    /\ Focused
    /\ last.type = "CursorEnterV"
    /\ IsSome(ActiveCell.cursor)
    /\ ActiveCell.cursor[1] > 0
    /\ ActiveCell.cursor[1] < Len(ActiveCell.text)
    /\ ActiveCell.text[ActiveCell.cursor[1]] = "hao"
    /\ ActiveCell.text[ActiveCell.cursor[1] + 1] = "zw"

(***************************************************************************)
(* C31.  The commands other than Insert and Delete (Up, Left, Down, Right, *)
(* CursorEnterH, CursorEnterV, CursorLeave) never change a Paragraph's     *)
(* graphemes, the set of cell coordinates of a Table, a Table's width or   *)
(* height, or the Document's list of elements: only cursors, active_cell   *)
(* and active_element change.                                              *)
(***************************************************************************)
MotionCommands ==
    {"Up", "Left", "Down", "Right", "CursorEnterH", "CursorEnterV", "CursorLeave"}

\* everything of a Table but its cursors and its active cell
Content(t) ==
    [texts |-> [c \in Cells(t) |-> t.cells[c].text],
     width |-> t.width,
     height |-> t.height]

Contents(els) == [e \in 1..Len(els) |-> Content(els[e])]

\* a session that a command aborts has no document left to compare
C31_MotionKeepsContent ==
    [][(last'.type \in MotionCommands /\ ~Aborted')
          => Contents(elements') = Contents(elements)]_vars

\* a motion command has moved the focus to another cell of a table
C31_Witness ==
    /\ last.type \in Directional
    /\ last.tret = "true"
    /\ Focused
    /\ ActiveCoord # <<0, 0>>
    /\ IsSome(ActiveCell.cursor)

(***************************************************************************)
(* C32.  In command mode, single-grapheme Writes that start from an empty  *)
(* command buffer with cursor x = 0 leave the buffer holding the written   *)
(* graphemes in the order they were written, whatever the length of the    *)
(* document line at the cursor's row; such a Write makes no new line.      *)
(***************************************************************************)
\* a step that has typed one grapheme into the command buffer
TypedCommand == mode = "Command" /\ last'.type = "Write" /\ ~IsAbort(last'.ret)

\* the buffer holds the typed graphemes in order exactly when every key is
\* appended at its end; a session that a Write aborts has no buffer left
C32_CommandInTypedOrder ==
    [][TypedCommand =>
          /\ to_string(command') = to_string(command) \o last'.msg.text
          /\ Len(lines') = Len(lines)]_vars

====
